---- MODULE Spec2Model ----
(***************************************************************************)
(* Push-to-talk core of linux-stt: the hotkey listener loop                *)
(* (hotkey.py), the audio recorder (audio.py) and the recording            *)
(* orchestration of run_daemon (main.py).                                  *)
(*                                                                         *)
(* Threads: the HotkeyListener thread reads key events and runs            *)
(* on_key_press / on_key_release synchronously; the audio subsystem's      *)
(* thread runs _audio_callback while the input stream is active.           *)
(*                                                                         *)
(* Environment: calls that leave the repository (sd.InputStream, the       *)
(* stream's start/stop/close, the model's generate, the output tools) may  *)
(* return or raise; which of the two is a nondeterministic choice.         *)
(* Feedback's methods catch their own failures (feedback.py:159-161,       *)
(* 238-240) and are modelled as always returning.                          *)
(***************************************************************************)
EXTENDS Integers, Sequences, FiniteSets, TLC

\* ------------------------------------------------------------ bounds
\* Number of frames the audio callback delivers in one behaviour.
MaxFrames == 3
\* Number of monitoring threads that exist at one time.
MaxThreads == 2
\* Number of streams left open that the recorder no longer refers to.
MaxOrphans == 1

\* ------------------------------------------------------------ constants
KEY_LEFTCTRL == 29
KEY_RIGHTCTRL == 97
\* A key code that is not monitored (KEY_A).
KEY_A == 30

\* hotkey.py:60-61, the default key_codes of run_daemon's listener.
key_codes == {KEY_LEFTCTRL, KEY_RIGHTCTRL}

\* Codes, values and types of the raw events the devices deliver.
\* value: 0 = release, 1 = press, 2 = repeat (hotkey.py:183).
EventCodes == key_codes \cup {KEY_A}
EventValues == {0, 1, 2}
EventTypes == {"EV_KEY", "EV_SYN"}

\* Sample rates accepted by Config._validate (config.py:86-92).
SampleRates == {8000, 16000}

\* Sizes, in samples, of the frames the audio callback delivers.
FrameSizes == {400, 1200}

\* Texts Transcriber.transcribe returns: _clean_transcription strips, so
\* the result is empty or has a non-blank character (transcribe.py:322-336).
Texts == {<<>>, <<"h", "i">>}

NoEv == [code |-> 0, value |-> 0, before |-> FALSE]

\* Keyboards of the system (evdev.list_devices(), hotkey.py:85).
Devices == {"kbdA", "kbdB"}

Threads == 1..MaxThreads

\* Raw events in the listener's life-cycle specification: every key event,
\* and one event of another type.
HKEvents ==
    [type : {"EV_KEY"}, code : EventCodes, value : EventValues]
        \cup {[type |-> "EV_SYN", code |-> 0, value |-> 0]}

NoRead == [kind |-> "none", dev |-> "-"]
NoCall ==
    [op |-> "none", wasRunning |-> FALSE, opened |-> FALSE, res |-> "none",
     prevFailed |-> FALSE]
NoArray == [len |-> 0 - 1, chunks |-> <<>>]

\* The three locks: state_lock (main.py:470), AudioRecorder._lock
\* (audio.py:68) and HotkeyListener._lock (hotkey.py:69).
Locks == {"state", "audio", "key"}

\* The threads of the daemon that call the recorder: the monitoring thread,
\* which runs the handlers, and the main thread (main.py:614-616).
Clients == {"hotkey", "main"}

\* The threads of the daemon: the two above and the audio subsystem's
\* callback thread.
DaemonThreads == Clients \cup {"portaudio"}

NoLocks == [l \in Locks |-> "free"]
NoAudioCall ==
    [op |-> "none", res |-> "none", arr |-> NoArray, num |-> 0, flag |-> FALSE]
AtRest == [t \in DaemonThreads |-> "rest"]

\* The event buffer of the keyboard device, empty.
NoBuf == [q |-> <<>>, cur |-> FALSE]

\* No monitoring thread started, the key-state lock free (owner 0), no
\* callback fired.
NoEdge == [code |-> 0, press |-> FALSE]
NoEdges ==
    [pc |-> [t \in Threads |-> "none"], ev |-> [t \in Threads |-> NoEdge],
     owner |-> 0, fired |-> [c \in key_codes |-> "none"]]

VARIABLES
    \* main.py run_daemon
    state,          \* "IDLE" | "RECORDING" | "PROCESSING"   (main.py:469)
    sample_rate,    \* config.sample_rate
    ppc,            \* position of on_key_press
    rpc,            \* position of on_key_release
    audio_arr,      \* on_key_release's local audio_data
    text,           \* on_key_release's local text
    \* hotkey.py HotkeyListener
    key_states,     \* _key_states
    lastEv,         \* the monitored press/release event read last, and the
                    \* key's state before it
    \* audio.py AudioRecorder
    recording,      \* _recording
    stream,         \* _stream: "none" | "opened" | "active"
    audio_queue,    \* _audio_queue
    audio_data,     \* _audio_data
    nextId,         \* identity of the next frame the hardware delivers
    \* history of the current press/release cycle
    captured,       \* frames pushed since the stream was started last
    cyc,            \* what the collaborators saw in this cycle
    inflight,       \* transcription calls in progress
    \* hotkey.py HotkeyListener, its life cycle
    running,        \* _running
    thread,         \* _thread: 0 (None) or the thread started last
    tpc,            \* position of each monitoring thread
    devices,        \* _devices, each registered with the selector
    selector,       \* _selector: "none" | "open"
    spc,            \* position of the control thread inside stop()
    phys,           \* <<device, code>> pairs of the keys physically held
    hkLast,         \* what a monitoring thread read last, and what it did
    lastCall,       \* the start()/stop() call made last
    bal,            \* on_press calls minus on_release calls since start()
    \* the locks and the threads that take them
    holder,         \* who holds state_lock, AudioRecorder._lock and
                    \* HotkeyListener._lock: a thread or "free"
    apc,            \* position of each thread inside an AudioRecorder method
    alast,          \* the AudioRecorder call that returned or raised last
    orphans,        \* streams opened, never closed and no longer in _stream
    lpc,            \* position of each thread of the daemon
    \* the keyboard's event buffer
    kbuf,           \* events that occurred and were not read yet, and
                    \* whether the event read last occurred in PROCESSING
    \* the monitoring threads around the key-state lock
    edge            \* each thread's position and event, the lock's owner and
                    \* the callback fired last for each key since start()

vars == <<state, sample_rate, ppc, rpc, audio_arr, text, key_states, lastEv,
          recording, stream, audio_queue, audio_data, nextId, captured, cyc,
          inflight, running, thread, tpc, devices, selector, spc, phys,
          hkLast, lastCall, bal, holder, apc, alast, orphans, lpc, kbuf,
          edge>>

orchVars == <<state, sample_rate>>
audioVars == <<recording, stream, audio_queue, audio_data>>
hotkeyVars == <<key_states, lastEv>>
listenerVars ==
    <<running, thread, tpc, devices, selector, spc, phys, hkLast, lastCall,
      bal>>
lockVars == <<holder, apc, alast, orphans, lpc, kbuf, edge>>
daemonVars ==
    <<state, sample_rate, ppc, rpc, audio_arr, text, lastEv, recording,
      stream, audio_queue, audio_data, nextId, captured, cyc, inflight>>

NewCycle ==
    [fb |-> <<>>, startres |-> "none", stopres |-> "none", n |-> 0 - 1,
     tcalls |-> 0, txArg |-> NoArray, tres |-> "none",
     ocalls |-> 0, ores |-> "none", idle_writes |-> 0]

\* ------------------------------------------------------------ helpers

RECURSIVE SumLen(_)
SumLen(frames) ==
    IF frames = <<>> THEN 0 ELSE Head(frames).n + SumLen(Tail(frames))

\* np.concatenate(self._audio_data, axis=0): one array holding the chunks'
\* samples in list order; its length is the sum of the chunks' lengths.
\* The empty list gives the zero-length array.
Concatenate(frames) ==
    [len |-> SumLen(frames), chunks |-> [i \in 1..Len(frames) |-> frames[i].id]]

\* int(0.1 * config.sample_rate).  For every positive rate below 2^21 the
\* double product truncates to the integer quotient by ten.
MinSamples(rate) == rate \div 10

\* str.strip(): leading and trailing blanks removed.
RECURSIVE LStrip(_)
LStrip(t) ==
    IF t # <<>> /\ Head(t) = " " THEN LStrip(Tail(t)) ELSE t

RECURSIVE RStrip(_)
RStrip(t) ==
    IF t # <<>> /\ t[Len(t)] = " " THEN RStrip(SubSeq(t, 1, Len(t) - 1)) ELSE t

Strip(t) == RStrip(LStrip(t))

\* Mutant of Truthy: the strip test inverted.
TruthyInverted(t) == t # <<>> /\ Strip(t) = <<>>

\* `text and text.strip()` (main.py:527)
Truthy(t) == t # <<>> /\ Strip(t) # <<>>

Feedback(ev) == cyc' = [cyc EXCEPT !.fb = Append(@, ev)]

\* ------------------------------------------------------------ Init

Init ==
    /\ state = "IDLE"
    /\ sample_rate \in SampleRates
    /\ ppc = "idle"
    /\ rpc = "idle"
    /\ audio_arr = NoArray
    /\ text = <<>>
    /\ key_states = [c \in key_codes |-> FALSE]
    /\ lastEv = NoEv
    /\ recording = FALSE
    /\ stream = "none"
    /\ audio_queue = <<>>
    /\ audio_data = <<>>
    /\ nextId = 1
    /\ captured = <<>>
    /\ cyc = NewCycle
    /\ inflight = 0
    \* hotkey.start(...) has returned (main.py:573)
    /\ running = TRUE
    /\ thread = 1
    /\ tpc = [t \in Threads |-> IF t = 1 THEN "select" ELSE "none"]
    /\ devices = Devices
    /\ selector = "open"
    /\ spc = "idle"
    /\ phys = {}
    /\ hkLast = NoRead
    /\ lastCall = [op |-> "start", wasRunning |-> FALSE, opened |-> TRUE,
                   res |-> "ok", prevFailed |-> FALSE]
    /\ bal = 0
    /\ holder = NoLocks
    /\ apc = [c \in Clients |-> "idle"]
    /\ alast = NoAudioCall
    /\ orphans = 0
    /\ lpc = AtRest
    /\ kbuf = NoBuf
    /\ edge = NoEdges

\* ------------------------------------------------------------ hotkey.py

\* Mutant of InCallback: callbacks handed to another thread, the loop goes on.
InCallbackNever == FALSE

\* The loop calls on_press()/on_release() itself (hotkey.py:202-208): while a
\* callback runs, the listener thread reads no further event.
InCallback == ppc # "idle" \/ rpc # "idle"

\* Mutant of StateUnchanged: the duplicate check is missing.
StateUnchangedNever(code, is_press) == FALSE

\* `if current_state == is_press: continue` (hotkey.py:192-196)
StateUnchanged(code, is_press) == key_states[code] = is_press

\* What _listen_loop does with one raw event (hotkey.py:174-210).
ListenStep(type, code, value) ==
    /\ ~InCallback
    /\ IF type # "EV_KEY" \/ code \notin key_codes \/ value = 2
       THEN \* the three `continue`s of hotkey.py:176-186
            UNCHANGED <<key_states, lastEv, ppc, rpc>>
       ELSE LET is_press == (value = 1) IN
            /\ lastEv' = [code |-> code, value |-> value,
                          before |-> key_states[code]]
            /\ IF StateUnchanged(code, is_press)
               THEN UNCHANGED <<key_states, ppc, rpc>>
               ELSE /\ key_states' = [key_states EXCEPT ![code] = is_press]
                    /\ IF is_press
                       THEN ppc' = "p_guard" /\ UNCHANGED rpc
                       ELSE rpc' = "r_guard" /\ UNCHANGED ppc
    /\ UNCHANGED <<orchVars, audioVars, audio_arr, text, nextId, captured,
                   cyc, inflight>>

\* One raw event read from a device by _listen_loop (hotkey.py:174-210).
ListenEvent(type, code, value) ==
    /\ ListenStep(type, code, value)
    /\ UNCHANGED <<lockVars, listenerVars>>

\* ------------------------------------------------------------ audio.py

\* _audio_callback, run by the audio subsystem while the stream is active:
\* queue.put of a copy of the frame on an unbounded queue.Queue().
AudioCallback(size) ==
    /\ stream = "active"
    /\ nextId <= MaxFrames
    /\ LET frame == [id |-> nextId, n |-> size] IN
         /\ audio_queue' = Append(audio_queue, frame)
         /\ captured' = Append(captured, frame)
    /\ nextId' = nextId + 1
    /\ UNCHANGED <<lockVars, listenerVars, orchVars, ppc, rpc, audio_arr, text, hotkeyVars, recording,
                   stream, audio_data, cyc, inflight>>

\* Mutant of ClearedData: the accumulated chunks are not cleared on start.
KeptData(data) == data

\* self._audio_data.clear() (audio.py:133)
ClearedData(data) == <<>>

\* start_recording returning normally (audio.py:128-150).
StartRecordingOK ==
    /\ ~recording
    /\ audio_data' = ClearedData(audio_data)
    /\ audio_queue' = <<>>
    /\ stream' = "active"
    /\ recording' = TRUE
    /\ captured' = <<>>

\* start_recording raising RuntimeError("Already recording") (audio.py:129-130).
StartRecordingAlready ==
    /\ recording
    /\ UNCHANGED <<audioVars, captured>>

\* start_recording raising from sd.InputStream(...) (the stream attribute is
\* not assigned) or from stream.start() (it is) (audio.py:133-186).
StartRecordingFail ==
    /\ ~recording
    /\ audio_data' = ClearedData(audio_data)
    /\ audio_queue' = <<>>
    /\ stream' \in {stream, "opened"}
    /\ UNCHANGED <<recording, captured>>

\* The list stop_recording concatenates: the accumulated chunks followed by
\* the chunks drained from the queue (audio.py:212-217).
Drained(data, q) == data \o q

\* stop_recording returning normally (audio.py:199-225).
StopRecordingOK ==
    /\ recording
    /\ stream' = "none"
    /\ recording' = FALSE
    /\ audio_data' = Drained(audio_data, audio_queue)
    /\ audio_queue' = <<>>
    /\ UNCHANGED captured

\* stop_recording raising RuntimeError("Not currently recording")
\* (audio.py:200-201).
StopRecordingNot ==
    /\ ~recording
    /\ UNCHANGED <<audioVars, captured>>

\* stop_recording raising from stream.stop() (the stream stays active) or
\* from stream.close() (it is stopped); lines 207-225 are not reached
\* (audio.py:204-206).
StopRecordingStreamError ==
    /\ recording
    /\ stream # "none"
    /\ stream' \in {stream, "opened"}
    /\ UNCHANGED <<recording, audio_queue, audio_data, captured>>

\* ------------------------------------------------------------ main.py

\* Mutant of PressGuardOK: the press handler does not look at the state.
PressGuardAny == TRUE

\* on_key_press's guard `state != "IDLE"` negated (main.py:476).
PressGuardOK == state = "IDLE"

\* Mutant of ReleaseGuardOK: the release handler does not look at the state.
ReleaseGuardAny == TRUE

\* on_key_release's guard `state != "RECORDING"` negated (main.py:498).
ReleaseGuardOK == state = "RECORDING"

\* Mutant of TooShort: <= for <.
TooShortOrEqual(num_samples, rate) == num_samples <= MinSamples(rate)

\* `num_samples < min_samples` (main.py:516-517)
TooShort(num_samples, rate) == num_samples < MinSamples(rate)

\* Mutant of FinallyState: the finally clause leaves the state as it is.
FinallyStateKept == state

\* The value the finally clause writes (main.py:543-546).
FinallyState == "IDLE"

\* Mutant of ExceptClause: the exception is not caught by the except clause
\* and leaves through the finally clause.
ExceptClauseSkipped == "r_finally"

\* Where an exception raised inside the try continues: `except Exception`
\* (main.py:539).
ExceptClause == "r_except"

\* on_key_press, guard failed: return (main.py:475-478).
PressIgnored ==
    /\ ppc = "p_guard"
    /\ ~PressGuardOK
    /\ ppc' = "idle"
    /\ UNCHANGED <<lockVars, listenerVars, orchVars, rpc, audio_arr, text, hotkeyVars, audioVars,
                   nextId, captured, cyc, inflight>>

\* on_key_press, guard passed: state = "RECORDING" (main.py:475-480).
PressAccept ==
    /\ ppc = "p_guard"
    /\ PressGuardOK
    /\ state' = "RECORDING"
    /\ ppc' = "p_fb"
    /\ cyc' = NewCycle
    /\ UNCHANGED <<lockVars, listenerVars, sample_rate, rpc, audio_arr, text, hotkeyVars, audioVars,
                   nextId, captured, inflight>>

\* feedback.on_recording_start() (main.py:483)
PressFeedback ==
    /\ ppc = "p_fb"
    /\ Feedback("recording_start")
    /\ ppc' = "p_start"
    /\ UNCHANGED <<lockVars, listenerVars, orchVars, rpc, audio_arr, text, hotkeyVars, audioVars,
                   nextId, captured, inflight>>

\* audio.start_recording() inside the try (main.py:485-488)
PressStart ==
    /\ ppc = "p_start"
    /\ \/ /\ StartRecordingOK
          /\ ppc' = "idle"
          /\ cyc' = [cyc EXCEPT !.startres = "ok"]
       \/ /\ StartRecordingAlready \/ StartRecordingFail
          /\ ppc' = "p_err"
          /\ cyc' = [cyc EXCEPT !.startres = "raised"]
    /\ UNCHANGED <<lockVars, listenerVars, orchVars, rpc, audio_arr, text, hotkeyVars, nextId, inflight>>

\* feedback.on_error(...) of the except clause (main.py:488-490)
PressError ==
    /\ ppc = "p_err"
    /\ Feedback("error")
    /\ ppc' = "p_revert"
    /\ UNCHANGED <<lockVars, listenerVars, orchVars, rpc, audio_arr, text, hotkeyVars, audioVars,
                   nextId, captured, inflight>>

\* `with state_lock: state = "IDLE"` of the except clause (main.py:491-492)
PressRevert ==
    /\ ppc = "p_revert"
    /\ state' = "IDLE"
    /\ ppc' = "idle"
    /\ UNCHANGED <<lockVars, listenerVars, sample_rate, rpc, audio_arr, text, hotkeyVars, audioVars,
                   nextId, captured, cyc, inflight>>

\* on_key_release, guard failed: return (main.py:497-500).
ReleaseIgnored ==
    /\ rpc = "r_guard"
    /\ ~ReleaseGuardOK
    /\ rpc' = "idle"
    /\ UNCHANGED <<lockVars, listenerVars, orchVars, ppc, audio_arr, text, hotkeyVars, audioVars,
                   nextId, captured, cyc, inflight>>

\* on_key_release, guard passed: state = "PROCESSING" (main.py:497-502).
ReleaseAccept ==
    /\ rpc = "r_guard"
    /\ ReleaseGuardOK
    /\ state' = "PROCESSING"
    /\ rpc' = "r_fb"
    /\ UNCHANGED <<lockVars, listenerVars, sample_rate, ppc, audio_arr, text, hotkeyVars, audioVars,
                   nextId, captured, cyc, inflight>>

\* feedback.on_recording_stop() (main.py:505)
ReleaseFeedback ==
    /\ rpc = "r_fb"
    /\ Feedback("recording_stop")
    /\ rpc' = "r_stop"
    /\ UNCHANGED <<lockVars, listenerVars, orchVars, ppc, audio_arr, text, hotkeyVars, audioVars,
                   nextId, captured, inflight>>

\* audio_data = audio.stop_recording(); num_samples = len(audio_data)
\* (main.py:509-510)
ReleaseStop ==
    /\ rpc = "r_stop"
    /\ \/ /\ StopRecordingOK
          /\ audio_arr' = Concatenate(audio_data')
          /\ rpc' = "r_check"
          /\ cyc' = [cyc EXCEPT !.stopres = "ok",
                                !.n = Concatenate(audio_data').len]
       \/ /\ StopRecordingNot \/ StopRecordingStreamError
          /\ rpc' = ExceptClause
          /\ cyc' = [cyc EXCEPT !.stopres = "raised"]
          /\ UNCHANGED audio_arr
    /\ UNCHANGED <<lockVars, listenerVars, orchVars, ppc, text, hotkeyVars, nextId, inflight>>

\* The minimum-duration branch: state = "IDLE" and return, through the
\* finally clause (main.py:516-521).
ReleaseTooShort ==
    /\ rpc = "r_check"
    /\ TooShort(audio_arr.len, sample_rate)
    /\ state' = "IDLE"
    /\ cyc' = [cyc EXCEPT !.idle_writes = @ + 1]
    /\ rpc' = "r_finally"
    /\ UNCHANGED <<lockVars, listenerVars, sample_rate, ppc, audio_arr, text, hotkeyVars, audioVars,
                   nextId, captured, inflight>>

\* transcriber.transcribe(audio_data, ...) is entered (main.py:525).
TranscribeCall ==
    /\ rpc = "r_check"
    /\ ~TooShort(audio_arr.len, sample_rate)
    /\ rpc' = "r_transcribe"
    /\ cyc' = [cyc EXCEPT !.tcalls = @ + 1, !.txArg = audio_arr]
    /\ inflight' = inflight + 1
    /\ UNCHANGED <<lockVars, listenerVars, orchVars, ppc, audio_arr, text, hotkeyVars, audioVars,
                   nextId, captured>>

\* transcribe returns t; `if text and text.strip()` picks the branch
\* (main.py:525-537).
TranscribeReturn(t) ==
    /\ rpc = "r_transcribe"
    /\ text' = t
    /\ inflight' = inflight - 1
    /\ cyc' = [cyc EXCEPT !.tres = IF Strip(t) = <<>> THEN "blank" ELSE "text"]
    /\ rpc' = IF Truthy(t) THEN "r_output" ELSE "r_finally"
    /\ UNCHANGED <<lockVars, listenerVars, orchVars, ppc, audio_arr, hotkeyVars, audioVars, nextId,
                   captured>>

\* transcribe raises (transcribe.py:296-308).
TranscribeRaise ==
    /\ rpc = "r_transcribe"
    /\ inflight' = inflight - 1
    /\ cyc' = [cyc EXCEPT !.tres = "raised"]
    /\ rpc' = ExceptClause
    /\ UNCHANGED <<lockVars, listenerVars, orchVars, ppc, audio_arr, text, hotkeyVars, audioVars,
                   nextId, captured>>

\* output.output(text) returns or raises (main.py:531).
Output ==
    /\ rpc = "r_output"
    /\ \/ /\ rpc' = "r_complete"
          /\ cyc' = [cyc EXCEPT !.ocalls = @ + 1, !.ores = "ok"]
       \/ /\ rpc' = ExceptClause
          /\ cyc' = [cyc EXCEPT !.ocalls = @ + 1, !.ores = "raised"]
    /\ UNCHANGED <<lockVars, listenerVars, orchVars, ppc, audio_arr, text, hotkeyVars, audioVars,
                   nextId, captured, inflight>>

\* feedback.on_transcription_complete(text) (main.py:534)
ReleaseComplete ==
    /\ rpc = "r_complete"
    /\ Feedback("transcription_complete")
    /\ rpc' = "r_finally"
    /\ UNCHANGED <<lockVars, listenerVars, orchVars, ppc, audio_arr, text, hotkeyVars, audioVars,
                   nextId, captured, inflight>>

\* The except clause: feedback.on_error(...) (main.py:539-541)
ReleaseExcept ==
    /\ rpc = "r_except"
    /\ Feedback("error")
    /\ rpc' = "r_finally"
    /\ UNCHANGED <<lockVars, listenerVars, orchVars, ppc, audio_arr, text, hotkeyVars, audioVars,
                   nextId, captured, inflight>>

\* The finally clause, then the handler returns (main.py:543-546).
ReleaseFinally ==
    /\ rpc = "r_finally"
    /\ state' = FinallyState
    /\ cyc' = [cyc EXCEPT !.idle_writes = @ + 1]
    /\ rpc' = "idle"
    /\ UNCHANGED <<lockVars, listenerVars, sample_rate, ppc, audio_arr, text, hotkeyVars, audioVars,
                   nextId, captured, inflight>>

\* ------------------------------------------------------------ Next

Next ==
    \/ \E type \in EventTypes, code \in EventCodes, value \in EventValues :
         ListenEvent(type, code, value)
    \/ \E size \in FrameSizes : AudioCallback(size)
    \/ PressIgnored
    \/ PressAccept
    \/ PressFeedback
    \/ PressStart
    \/ PressError
    \/ PressRevert
    \/ ReleaseIgnored
    \/ ReleaseAccept
    \/ ReleaseFeedback
    \/ ReleaseStop
    \/ ReleaseTooShort
    \/ TranscribeCall
    \/ \E t \in Texts : TranscribeReturn(t)
    \/ TranscribeRaise
    \/ Output
    \/ ReleaseComplete
    \/ ReleaseExcept
    \/ ReleaseFinally

Spec == Init /\ [][Next]_vars

TypeOK ==
    /\ state \in {"IDLE", "RECORDING", "PROCESSING"}
    /\ sample_rate \in SampleRates
    /\ recording \in BOOLEAN
    /\ stream \in {"none", "opened", "active"}
    /\ Len(audio_queue) <= MaxFrames
    /\ nextId \in 1..(MaxFrames + 1)
    /\ inflight \in 0..1

\* ------------------------------------------------- hotkey.py life cycle

\* Mutant of IsRepeat: auto-repeat events are not filtered.
IsRepeatNever(value) == FALSE

\* `if event.value == 2: continue` (hotkey.py:183-186)
IsRepeat(value) == value = 2

\* The three `continue`s of hotkey.py:176-186.
Skipped(ev) ==
    ev.type # "EV_KEY" \/ ev.code \notin key_codes \/ IsRepeat(ev.value)

\* What the keyboard d can emit next, given the keys physically held on it:
\* a press of a key that is up, a release or a repeat of a key that is down.
\* Keys outside key_codes and other event types are not tracked.
Emits(d, ev) ==
    \/ ev.type # "EV_KEY"
    \/ ev.code \notin key_codes
    \/ ev.value = 1 /\ <<d, ev.code>> \notin phys
    \/ ev.value \in {0, 2} /\ <<d, ev.code>> \in phys

PhysAfter(d, ev) ==
    IF ev.type # "EV_KEY" \/ ev.code \notin key_codes THEN phys
    ELSE IF ev.value = 1 THEN phys \cup {<<d, ev.code>>}
    ELSE IF ev.value = 0 THEN phys \ {<<d, ev.code>>}
    ELSE phys

\* The monitoring thread t reads one raw event from device d
\* (hotkey.py:167-208, up to the call of the callback).
HKListen(t, d, ev) ==
    /\ tpc[t] = "select"
    /\ selector = "open"
    /\ d \in devices
    /\ Emits(d, ev)
    /\ phys' = PhysAfter(d, ev)
    /\ hkLast' = [kind |-> IF ev.type = "EV_KEY" /\ ev.value = 2
                            THEN "repeat" ELSE "event",
                  dev |-> "-"]
    /\ IF Skipped(ev) \/ StateUnchanged(ev.code, ev.value = 1)
       THEN UNCHANGED <<key_states, tpc, bal>>
       ELSE LET is_press == (ev.value = 1) IN
            /\ key_states' = [key_states EXCEPT ![ev.code] = is_press]
            /\ tpc' = [tpc EXCEPT ![t] = IF is_press THEN "press" ELSE "release"]
            /\ bal' = IF is_press THEN bal + 1 ELSE bal - 1
    /\ UNCHANGED <<running, thread, devices, selector, spc, lastCall,
                   daemonVars, lockVars>>

\* on_press()/on_release() returns (hotkey.py:203-208).
HKCallbackReturn(t) ==
    /\ tpc[t] \in {"press", "release"}
    /\ tpc' = [tpc EXCEPT ![t] = "select"]
    /\ UNCHANGED <<running, thread, devices, selector, spc, phys, hkLast,
                   lastCall, bal, key_states, daemonVars, lockVars>>

\* Mutant of AfterCallbackError: the exception leaves the thread's function.
CallbackErrorEscapes == "done"

\* `except Exception as e: logger.error(...)` (hotkey.py:209-210)
AfterCallbackError == "caught"

\* on_press()/on_release() raises.
HKCallbackRaise(t) ==
    /\ tpc[t] \in {"press", "release"}
    /\ tpc' = [tpc EXCEPT ![t] = AfterCallbackError]
    /\ UNCHANGED <<running, thread, devices, selector, spc, phys, hkLast,
                   lastCall, bal, key_states, daemonVars, lockVars>>

\* The except clause has logged the error; the loop goes on (hotkey.py:210).
HKCaught(t) ==
    /\ tpc[t] = "caught"
    /\ tpc' = [tpc EXCEPT ![t] = "select"]
    /\ UNCHANGED <<running, thread, devices, selector, spc, phys, hkLast,
                   lastCall, bal, key_states, daemonVars, lockVars>>

\* Mutant of DevicesAfterError: the failed device stays monitored.
DevicesKept(d) == devices

\* `self._selector.unregister(device); self._devices.remove(device)`
\* (hotkey.py:215-219)
DevicesAfterError(d) == devices \ {d}

\* device.read() raises OSError (hotkey.py:212-219).
HKReadError(t, d) ==
    /\ tpc[t] = "select"
    /\ selector = "open"
    /\ d \in devices
    /\ devices' = DevicesAfterError(d)
    /\ hkLast' = [kind |-> "OSError", dev |-> d]
    /\ UNCHANGED <<running, thread, tpc, selector, spc, phys, lastCall, bal,
                   key_states, daemonVars, lockVars>>

\* `while self._running` is false: the thread's function returns
\* (hotkey.py:164, 225).
HKExit(t) ==
    /\ tpc[t] = "select"
    /\ ~running
    /\ tpc' = [tpc EXCEPT ![t] = "done"]
    /\ UNCHANGED <<running, thread, devices, selector, spc, phys, hkLast,
                   lastCall, bal, key_states, daemonVars, lockVars>>

\* The call made last was a start() that failed for want of a device.
StartFailedBefore ==
    /\ lastCall.op = "start"
    /\ lastCall.res = "raised"
    /\ ~lastCall.wasRunning

Call(op, opened, res) ==
    [op |-> op, wasRunning |-> running, opened |-> opened, res |-> res,
     prevFailed |-> StartFailedBefore]

\* Mutant of StartGuardOK: start() does not look at _running.
StartGuardAlways == TRUE

\* `if self._running: raise RuntimeError(...)` (hotkey.py:239-240)
StartGuardOK == ~running

\* Mutant of NoneOpened: start() does not look at the opened devices.
NoneOpenedIgnored(devs) == FALSE

\* `if not self._devices: raise RuntimeError(...)` (hotkey.py:253-254)
NoneOpened(devs) == devs = {}

\* The thread object start() creates: the first one not in use.
FreshThread(t) ==
    /\ tpc[t] \in {"none", "done"}
    /\ \A u \in Threads : u < t => tpc[u] \notin {"none", "done"}

\* start() on a running listener (hotkey.py:239-240).
HKStartRejected ==
    /\ spc = "idle"
    /\ ~StartGuardOK
    /\ lastCall' = Call("start", FALSE, "raised")
    /\ UNCHANGED <<running, thread, tpc, devices, selector, spc, phys, hkLast,
                   bal, key_states, daemonVars, lockVars>>

\* find_keyboard_devices() raises: no keyboard (hotkey.py:109-112) or no
\* permission (hotkey.py:86-94).
HKStartNoDevices ==
    /\ spc = "idle"
    /\ StartGuardOK
    /\ lastCall' = Call("start", FALSE, "raised")
    /\ UNCHANGED <<running, thread, tpc, devices, selector, spc, phys, hkLast,
                   bal, key_states, daemonVars, lockVars>>

\* Keyboards were found; the selector is created and _open_devices appends
\* the ones it could open; none is there (hotkey.py:245-254).
HKStartNoneOpened(opened) ==
    /\ spc = "idle"
    /\ StartGuardOK
    /\ NoneOpened(devices \cup opened)
    /\ selector' = "open"
    /\ devices' = devices \cup opened
    /\ lastCall' = Call("start", opened # {}, "raised")
    /\ UNCHANGED <<running, thread, tpc, spc, phys, hkLast, bal, key_states,
                   daemonVars, lockVars>>

\* start() to its end (hotkey.py:239-270).
HKStartOK(opened, t) ==
    /\ spc = "idle"
    /\ StartGuardOK
    /\ ~NoneOpened(devices \cup opened)
    /\ FreshThread(t)
    /\ selector' = "open"
    /\ devices' = devices \cup opened
    /\ key_states' = [c \in key_codes |-> FALSE]
    /\ running' = TRUE
    /\ thread' = t
    /\ tpc' = [tpc EXCEPT ![t] = "select"]
    /\ bal' = 0
    /\ lastCall' = Call("start", opened # {}, "ok")
    /\ UNCHANGED <<spc, phys, hkLast, daemonVars, lockVars>>

\* stop() on a listener that is not running (hotkey.py:278-280).
HKStopNoop ==
    /\ spc = "idle"
    /\ ~running
    /\ lastCall' = Call("stop", FALSE, "returned")
    /\ UNCHANGED <<running, thread, tpc, devices, selector, spc, phys, hkLast,
                   bal, key_states, daemonVars, lockVars>>

\* stop() signals the thread to stop (hotkey.py:278-285).
HKStopBegin ==
    /\ spc = "idle"
    /\ running
    /\ running' = FALSE
    /\ spc' = "join"
    /\ lastCall' = Call("stop", FALSE, "pending")
    /\ UNCHANGED <<thread, tpc, devices, selector, phys, hkLast, bal,
                   key_states, daemonVars, lockVars>>

\* Mutant of JoinReturns: join() without a timeout.
JoinWithoutTimeout == thread = 0 \/ tpc[thread] = "done"

\* `self._thread.join(timeout=2.0)` returns when the thread has finished and
\* also when two seconds have passed (hotkey.py:288-291).
JoinReturns == TRUE

HKStopJoin ==
    /\ spc = "join"
    /\ JoinReturns
    /\ spc' = "cleanup"
    /\ UNCHANGED <<running, thread, tpc, devices, selector, phys, hkLast,
                   lastCall, bal, key_states, daemonVars, lockVars>>

\* _close_devices() and the rest of stop() (hotkey.py:141-152, 293-301).
HKStopCleanup ==
    /\ spc = "cleanup"
    /\ IF selector # "none"
       THEN devices' = {} /\ selector' = "none"
       ELSE UNCHANGED <<devices, selector>>
    /\ thread' = 0
    /\ spc' = "idle"
    /\ lastCall' = [lastCall EXCEPT !.res = "returned"]
    /\ UNCHANGED <<running, tpc, phys, hkLast, bal, key_states, daemonVars, lockVars>>

\* The listener after __init__ (hotkey.py:52-71), in a daemon at rest.
InitHK ==
    /\ running = FALSE
    /\ thread = 0
    /\ tpc = [t \in Threads |-> "none"]
    /\ devices = {}
    /\ selector = "none"
    /\ key_states = [c \in key_codes |-> FALSE]
    /\ spc = "idle"
    /\ phys = {}
    /\ hkLast = NoRead
    /\ lastCall = NoCall
    /\ bal = 0
    /\ holder = NoLocks
    /\ apc = [c \in Clients |-> "idle"]
    /\ alast = NoAudioCall
    /\ orphans = 0
    /\ lpc = AtRest
    /\ kbuf = NoBuf
    /\ edge = NoEdges
    /\ state = "IDLE"
    /\ sample_rate = 16000
    /\ ppc = "idle"
    /\ rpc = "idle"
    /\ audio_arr = NoArray
    /\ text = <<>>
    /\ lastEv = NoEv
    /\ recording = FALSE
    /\ stream = "none"
    /\ audio_queue = <<>>
    /\ audio_data = <<>>
    /\ nextId = 1
    /\ captured = <<>>
    /\ cyc = NewCycle
    /\ inflight = 0

NextHK ==
    \/ \E t \in Threads, d \in Devices, ev \in HKEvents : HKListen(t, d, ev)
    \/ \E t \in Threads : HKCallbackReturn(t)
    \/ \E t \in Threads : HKCallbackRaise(t)
    \/ \E t \in Threads : HKCaught(t)
    \/ \E t \in Threads, d \in Devices : HKReadError(t, d)
    \/ \E t \in Threads : HKExit(t)
    \/ HKStartRejected
    \/ HKStartNoDevices
    \/ \E opened \in SUBSET Devices : HKStartNoneOpened(opened)
    \/ \E opened \in SUBSET Devices, t \in Threads : HKStartOK(opened, t)
    \/ HKStopNoop
    \/ HKStopBegin
    \/ HKStopJoin
    \/ HKStopCleanup

SpecHK == InitHK /\ [][NextHK]_vars

\* The thread that called stop() keeps running: its join and its cleanup are
\* taken when they can be.  A monitoring thread outside a callback keeps
\* running too: select() times out after 0.5 s and the loop tests _running
\* each time round (hotkey.py:164-167), so a thread that is again and again
\* at the top of the loop with _running false ends.  Nothing makes a
\* callback return.
SpecHKFair ==
    /\ SpecHK
    /\ WF_vars(HKStopJoin)
    /\ WF_vars(HKStopCleanup)
    /\ \A t \in Threads : SF_vars(HKExit(t)) /\ WF_vars(HKCaught(t))

TypeOKHK ==
    /\ running \in BOOLEAN
    /\ thread \in 0..MaxThreads
    /\ tpc \in [Threads -> {"none", "select", "press", "release", "caught",
                            "done"}]
    /\ devices \subseteq Devices
    /\ selector \in {"none", "open"}
    /\ spc \in {"idle", "join", "cleanup"}
    /\ phys \subseteq (Devices \X key_codes)
    /\ bal \in 0..Cardinality(key_codes)

\* ------------------------------------------- audio.py, step by step

\* The methods of AudioRecorder a thread can call.
AudioOps == {"start_recording", "stop_recording", "is_recording",
             "get_audio_duration"}

FirstPc(op) ==
    CASE op = "start_recording" -> "s_check"
      [] op = "stop_recording" -> "t_check"
      [] op = "is_recording" -> "q_rec"
      [] op = "get_audio_duration" -> "q_dur"

AudioCall(op, res) ==
    [op |-> op, res |-> res, arr |-> NoArray, num |-> 0, flag |-> FALSE]

\* Everything the recorder's methods and its callback leave alone.
notRecorderVars ==
    <<state, sample_rate, ppc, rpc, audio_arr, text, key_states, lastEv, cyc,
      inflight, listenerVars, lpc, kbuf, edge>>

\* `with self._lock:` is entered (audio.py:128, 199, 234, 244).
ARAcquire(c, op) ==
    /\ apc[c] = "idle"
    /\ holder["audio"] = "free"
    /\ holder' = [holder EXCEPT !["audio"] = c]
    /\ apc' = [apc EXCEPT ![c] = FirstPc(op)]
    /\ UNCHANGED <<audioVars, nextId, captured, alast, orphans,
                   notRecorderVars>>

\* The with block is left, by return or by exception, with the result res.
ARLeave(c, res) ==
    /\ holder' = [holder EXCEPT !["audio"] = "free"]
    /\ apc' = [apc EXCEPT ![c] = "idle"]
    /\ alast' = res

\* start_recording: `if self._recording: raise RuntimeError` (audio.py:129-130)
ARStartAlready(c) ==
    /\ apc[c] = "s_check"
    /\ recording
    /\ ARLeave(c, AudioCall("start_recording", "RuntimeError"))
    /\ UNCHANGED <<audioVars, nextId, captured, orphans, notRecorderVars>>

\* start_recording: the data and the queue are cleared (audio.py:132-138).
ARStartClear(c) ==
    /\ apc[c] = "s_check"
    /\ ~recording
    /\ audio_data' = ClearedData(audio_data)
    /\ audio_queue' = <<>>
    /\ apc' = [apc EXCEPT ![c] = "s_open"]
    /\ UNCHANGED <<recording, stream, nextId, captured, holder, alast, orphans,
                   notRecorderVars>>

\* start_recording: sd.InputStream(...) returns a stream, which replaces
\* the one _stream held; a stream replaced while open stays open unless
\* collecting the object closes it (audio.py:142-148).
ARStartOpen(c) ==
    /\ apc[c] = "s_open"
    /\ stream' = "opened"
    /\ orphans' \in (IF stream = "none" THEN {orphans}
                     ELSE {orphans, orphans + 1})
    /\ apc' = [apc EXCEPT ![c] = "s_start"]
    /\ UNCHANGED <<recording, audio_queue, audio_data, nextId, captured,
                   holder, alast, notRecorderVars>>

\* start_recording: sd.InputStream(...) raises (audio.py:142-186).
ARStartOpenFail(c) ==
    /\ apc[c] = "s_open"
    /\ ARLeave(c, AudioCall("start_recording", "PortAudioError"))
    /\ UNCHANGED <<audioVars, nextId, captured, orphans, notRecorderVars>>

\* start_recording: stream.start() returns, _recording = True
\* (audio.py:149-150).
ARStartStream(c) ==
    /\ apc[c] = "s_start"
    /\ stream' = "active"
    /\ recording' = TRUE
    /\ captured' = <<>>
    /\ ARLeave(c, AudioCall("start_recording", "ok"))
    /\ UNCHANGED <<audio_queue, audio_data, nextId, orphans, notRecorderVars>>

\* start_recording: stream.start() raises; _stream keeps the stream that
\* was opened (audio.py:149, 152-186).
ARStartStreamFail(c) ==
    /\ apc[c] = "s_start"
    /\ orphans < MaxOrphans
    /\ ARLeave(c, AudioCall("start_recording", "PortAudioError"))
    /\ UNCHANGED <<audioVars, nextId, captured, orphans, notRecorderVars>>

\* Mutant of StopAllowed: stop_recording does not look at _recording.
StopAllowedAlways == TRUE

\* `if not self._recording: raise` negated (audio.py:200)
StopAllowed == recording

\* stop_recording: `if not self._recording: raise RuntimeError`
\* (audio.py:200-201)
ARStopNot(c) ==
    /\ apc[c] = "t_check"
    /\ ~StopAllowed
    /\ ARLeave(c, AudioCall("stop_recording", "RuntimeError"))
    /\ UNCHANGED <<audioVars, nextId, captured, orphans, notRecorderVars>>

\* stop_recording: the guard is passed (audio.py:200-204).
ARStopCheck(c) ==
    /\ apc[c] = "t_check"
    /\ StopAllowed
    /\ apc' = [apc EXCEPT ![c] = "t_stop"]
    /\ UNCHANGED <<audioVars, nextId, captured, holder, alast, orphans,
                   notRecorderVars>>

\* stop_recording: stream.stop() returns; without a stream the flag is
\* reset at once (audio.py:204-205, 209).
ARStopStream(c) ==
    /\ apc[c] = "t_stop"
    /\ IF stream # "none"
       THEN /\ stream' = "opened"
            /\ apc' = [apc EXCEPT ![c] = "t_close"]
            /\ UNCHANGED recording
       ELSE /\ recording' = FALSE
            /\ apc' = [apc EXCEPT ![c] = "t_drain"]
            /\ UNCHANGED stream
    /\ UNCHANGED <<audio_queue, audio_data, nextId, captured, holder, alast,
                   orphans, notRecorderVars>>

\* stop_recording: stream.stop() raises (audio.py:205).
ARStopStreamFail(c) ==
    /\ apc[c] = "t_stop"
    /\ stream # "none"
    /\ ARLeave(c, AudioCall("stop_recording", "PortAudioError"))
    /\ UNCHANGED <<audioVars, nextId, captured, orphans, notRecorderVars>>

\* stop_recording: stream.close() returns, _stream = None,
\* _recording = False (audio.py:206-209).
ARStopClose(c) ==
    /\ apc[c] = "t_close"
    /\ stream' = "none"
    /\ recording' = FALSE
    /\ apc' = [apc EXCEPT ![c] = "t_drain"]
    /\ UNCHANGED <<audio_queue, audio_data, nextId, captured, holder, alast,
                   orphans, notRecorderVars>>

\* stop_recording: stream.close() raises (audio.py:206).
ARStopCloseFail(c) ==
    /\ apc[c] = "t_close"
    /\ ARLeave(c, AudioCall("stop_recording", "PortAudioError"))
    /\ UNCHANGED <<audioVars, nextId, captured, orphans, notRecorderVars>>

\* Mutant of DrainOrder: the chunks are taken from the queue last in,
\* first out.
RECURSIVE DrainReversed(_)
DrainReversed(q) ==
    IF q = <<>> THEN <<>> ELSE Append(DrainReversed(Tail(q)), Head(q))

\* `while not self._audio_queue.empty(): chunk = get_nowait()`: the chunks
\* in the order queue.Queue hands them out, first in first out
\* (audio.py:212-217).
DrainOrder(q) == q

\* stop_recording: the queue is drained into _audio_data and the
\* concatenation is returned (audio.py:211-225).
ARStopDrain(c) ==
    /\ apc[c] = "t_drain"
    /\ audio_data' = Drained(audio_data, DrainOrder(audio_queue))
    /\ audio_queue' = <<>>
    /\ ARLeave(c, [AudioCall("stop_recording", "ok")
                     EXCEPT !.arr = Concatenate(audio_data')])
    /\ UNCHANGED <<recording, stream, nextId, captured, orphans,
                   notRecorderVars>>

\* is_recording (audio.py:234-235)
ARIsRecording(c) ==
    /\ apc[c] = "q_rec"
    /\ ARLeave(c, [AudioCall("is_recording", "ok") EXCEPT !.flag = recording])
    /\ UNCHANGED <<audioVars, nextId, captured, orphans, notRecorderVars>>

\* Mutant of DurationSamples: the accumulated chunks are not counted.
QueueSamplesOnly(q, data) == SumLen(q)

\* total_samples of get_audio_duration (audio.py:245-254)
DurationSamples(q, data) == SumLen(q) + SumLen(data)

\* get_audio_duration; the value returned is num / sample_rate
\* (audio.py:244-255).
ARGetDuration(c) ==
    /\ apc[c] = "q_dur"
    /\ ARLeave(c, [AudioCall("get_audio_duration", "ok")
                     EXCEPT !.num = DurationSamples(audio_queue, audio_data)])
    /\ UNCHANGED <<audioVars, nextId, captured, orphans, notRecorderVars>>

\* Mutant of CallbackCanRun: the callback takes the recorder's lock.
CallbackNeedsLock == holder["audio"] = "free"

\* _audio_callback takes no lock of the recorder and queue.Queue() has no
\* maximum size: put() does not wait (audio.py:66, 118).
CallbackCanRun == TRUE

\* Mutant of CallbackPush: the frame is dropped.
CallbackDrop(q, frame) == q

\* `self._audio_queue.put(indata.copy())` (audio.py:118)
CallbackPush(q, frame) == Append(q, frame)

\* _audio_callback, run by the audio subsystem while the stream is active
\* (audio.py:97-118).
ARCallback(size) ==
    /\ stream = "active"
    /\ nextId <= MaxFrames
    /\ CallbackCanRun
    /\ LET frame == [id |-> nextId, n |-> size] IN
         /\ audio_queue' = CallbackPush(audio_queue, frame)
         /\ captured' = Append(captured, frame)
    /\ nextId' = nextId + 1
    /\ UNCHANGED <<recording, stream, audio_data, holder, apc, alast, orphans,
                   notRecorderVars>>

\* The recorder after __init__ (audio.py:64-69), every thread outside it.
InitAR ==
    /\ recording = FALSE
    /\ stream = "none"
    /\ audio_queue = <<>>
    /\ audio_data = <<>>
    /\ nextId = 1
    /\ captured = <<>>
    /\ holder = NoLocks
    /\ apc = [c \in Clients |-> "idle"]
    /\ alast = NoAudioCall
    /\ orphans = 0
    /\ lpc = AtRest
    /\ kbuf = NoBuf
    /\ edge = NoEdges
    /\ state = "IDLE"
    /\ sample_rate = 16000
    /\ ppc = "idle"
    /\ rpc = "idle"
    /\ audio_arr = NoArray
    /\ text = <<>>
    /\ key_states = [c \in key_codes |-> FALSE]
    /\ lastEv = NoEv
    /\ cyc = NewCycle
    /\ inflight = 0
    /\ running = FALSE
    /\ thread = 0
    /\ tpc = [t \in Threads |-> "none"]
    /\ devices = {}
    /\ selector = "none"
    /\ spc = "idle"
    /\ phys = {}
    /\ hkLast = NoRead
    /\ lastCall = NoCall
    /\ bal = 0

NextAR ==
    \/ \E c \in Clients, op \in AudioOps : ARAcquire(c, op)
    \/ \E c \in Clients : ARStartAlready(c)
    \/ \E c \in Clients : ARStartClear(c)
    \/ \E c \in Clients : ARStartOpen(c)
    \/ \E c \in Clients : ARStartOpenFail(c)
    \/ \E c \in Clients : ARStartStream(c)
    \/ \E c \in Clients : ARStartStreamFail(c)
    \/ \E c \in Clients : ARStopNot(c)
    \/ \E c \in Clients : ARStopCheck(c)
    \/ \E c \in Clients : ARStopStream(c)
    \/ \E c \in Clients : ARStopStreamFail(c)
    \/ \E c \in Clients : ARStopClose(c)
    \/ \E c \in Clients : ARStopCloseFail(c)
    \/ \E c \in Clients : ARStopDrain(c)
    \/ \E c \in Clients : ARIsRecording(c)
    \/ \E c \in Clients : ARGetDuration(c)
    \/ \E size \in FrameSizes : ARCallback(size)

SpecAR == InitAR /\ [][NextAR]_vars

TypeOKAR ==
    /\ recording \in BOOLEAN
    /\ stream \in {"none", "opened", "active"}
    /\ holder["audio"] \in Clients \cup {"free"}
    /\ apc \in [Clients -> {"idle", "s_check", "s_open", "s_start", "t_check",
                            "t_stop", "t_close", "t_drain", "q_rec", "q_dur"}]
    /\ orphans \in 0..MaxOrphans
    /\ \A c \in Clients : apc[c] # "idle" <=> holder["audio"] = c

\* ------------------------------------------------- the three locks
\*
\* The daemon's threads with every `with <lock>:` block taken apart into its
\* acquire, its body and its release.  lpc[t] is the position of thread t,
\* holder[l] the thread inside lock l.  The monitoring thread ("hotkey") runs
\* _listen_loop and, inside it, the handlers; the main thread runs
\* hotkey.start, the idle loop and the clean-up; the audio subsystem's thread
\* runs _audio_callback.

\* Variables no step of this section changes.
locksRest ==
    <<ppc, rpc, cyc, inflight, lastEv, thread, tpc, devices, selector, spc,
      phys, hkLast, lastCall, bal, apc, alast, orphans, kbuf, edge>>

\* Thread t moves from one position to the next.
Goto(t, from, to) ==
    /\ lpc[t] = from
    /\ lpc' = [lpc EXCEPT ![t] = to]

\* Mutant of Released: leaving `with state_lock:` does not release the lock.
StateLockKept(h, l) ==
    IF l = "state" THEN h ELSE [h EXCEPT ![l] = "free"]

\* Mutant of Released: leaving `with self._lock:` of the listener does not
\* release the lock, so the handlers run inside it.
KeyLockKept(h, l) ==
    IF l = "key" THEN h ELSE [h EXCEPT ![l] = "free"]

\* Leaving a `with` block releases its lock, on return, continue and raise
\* alike.
Released(h, l) == [h EXCEPT ![l] = "free"]

\* Entering `with l:`: threading.Lock.acquire blocks while the lock is held,
\* by another thread or by the caller itself (the locks are not re-entrant).
Acquire(t, l, from, to) ==
    /\ Goto(t, from, to)
    /\ holder[l] = "free"
    /\ holder' = [holder EXCEPT ![l] = t]

\* Leaving `with l:`.
Release(t, l, from, to) ==
    /\ Goto(t, from, to)
    /\ holder[l] = t
    /\ holder' = Released(holder, l)

\* ---- hotkey.py _listen_loop

\* An event of a watched key that is no repeat reaches line 191; the thread
\* waits for the listener's lock (hotkey.py:180-191).
LKeyEvent(is_press) ==
    /\ Goto("hotkey", "rest", IF is_press THEN "kp_acq" ELSE "kr_acq")
    /\ UNCHANGED <<holder, orchVars, audio_arr, text, key_states, audioVars,
                   nextId, captured, running, locksRest>>

\* `with self._lock:` entered (hotkey.py:191)
LKeyAcquire(is_press) ==
    /\ Acquire("hotkey", "key", IF is_press THEN "kp_acq" ELSE "kr_acq",
               IF is_press THEN "kp_in" ELSE "kr_in")
    /\ UNCHANGED <<orchVars, audio_arr, text, key_states, audioVars,
                   nextId, captured, running, locksRest>>

\* The body: the key's recorded state is compared and, when it differs,
\* updated (hotkey.py:192-199).
LKeyBody(code, is_press) ==
    /\ lpc["hotkey"] = (IF is_press THEN "kp_in" ELSE "kr_in")
    /\ IF key_states[code] = is_press
         THEN /\ lpc' = [lpc EXCEPT !["hotkey"] = "k_skip"]
              /\ UNCHANGED key_states
         ELSE /\ lpc' = [lpc EXCEPT !["hotkey"] =
                             IF is_press THEN "kp_out" ELSE "kr_out"]
              /\ key_states' = [key_states EXCEPT ![code] = is_press]
    /\ UNCHANGED <<holder, orchVars, audio_arr, text, audioVars,
                   nextId, captured, running, locksRest>>

\* `continue` out of the with block (hotkey.py:195-196)
LKeySkip ==
    /\ Release("hotkey", "key", "k_skip", "rest")
    /\ UNCHANGED <<orchVars, audio_arr, text, key_states, audioVars,
                   nextId, captured, running, locksRest>>

\* The with block left; on_press() or on_release() is called
\* (hotkey.py:199-207).
LKeyRelease(is_press) ==
    /\ Release("hotkey", "key", IF is_press THEN "kp_out" ELSE "kr_out",
               IF is_press THEN "p_acq" ELSE "r_acq")
    /\ UNCHANGED <<orchVars, audio_arr, text, key_states, audioVars,
                   nextId, captured, running, locksRest>>

\* `while self._running` found false: the thread ends (hotkey.py:169).
LListenExit ==
    /\ ~running
    /\ Goto("hotkey", "rest", "exited")
    /\ UNCHANGED <<holder, orchVars, audio_arr, text, key_states, audioVars,
                   nextId, captured, running, locksRest>>

\* ---- main.py on_key_press

\* `with state_lock:` entered (main.py:475)
LPressAcquire ==
    /\ Acquire("hotkey", "state", "p_acq", "p_guard")
    /\ UNCHANGED <<orchVars, audio_arr, text, key_states, audioVars,
                   nextId, captured, running, locksRest>>

\* The guard reads state; state = "RECORDING" when it passes
\* (main.py:476-480).
LPressGuard ==
    /\ lpc["hotkey"] = "p_guard"
    /\ IF PressGuardOK
         THEN /\ state' = "RECORDING"
              /\ lpc' = [lpc EXCEPT !["hotkey"] = "p_set"]
         ELSE /\ lpc' = [lpc EXCEPT !["hotkey"] = "p_ign"]
              /\ UNCHANGED state
    /\ UNCHANGED <<holder, sample_rate, audio_arr, text, key_states,
                   audioVars, nextId, captured, running, locksRest>>

\* `return` out of the with block (main.py:478)
LPressIgnored ==
    /\ Release("hotkey", "state", "p_ign", "rest")
    /\ UNCHANGED <<orchVars, audio_arr, text, key_states, audioVars,
                   nextId, captured, running, locksRest>>

\* The with block left; feedback.on_recording_start() is called
\* (main.py:480-483).
LPressRelease ==
    /\ Release("hotkey", "state", "p_set", "p_fb")
    /\ UNCHANGED <<orchVars, audio_arr, text, key_states, audioVars,
                   nextId, captured, running, locksRest>>

\* feedback.on_recording_start() returns; audio.start_recording() is called
\* and waits for the recorder's lock (main.py:483-486, audio.py:128).
LPressFeedback ==
    /\ Goto("hotkey", "p_fb", "p_aacq")
    /\ UNCHANGED <<holder, orchVars, audio_arr, text, key_states, audioVars,
                   nextId, captured, running, locksRest>>

\* `with self._lock:` of start_recording entered (audio.py:128)
LStartAcquire ==
    /\ Acquire("hotkey", "audio", "p_aacq", "p_ain")
    /\ UNCHANGED <<orchVars, audio_arr, text, key_states, audioVars,
                   nextId, captured, running, locksRest>>

\* The body of start_recording (audio.py:129-186)
LStartBody ==
    /\ lpc["hotkey"] = "p_ain"
    /\ \/ /\ StartRecordingOK
          /\ lpc' = [lpc EXCEPT !["hotkey"] = "p_aok"]
       \/ /\ StartRecordingAlready \/ StartRecordingFail
          /\ lpc' = [lpc EXCEPT !["hotkey"] = "p_araise"]
    /\ UNCHANGED <<holder, orchVars, audio_arr, text, key_states, nextId,
                   running, locksRest>>

\* start_recording returns, and with it the handler (main.py:486-487).
LStartReturn ==
    /\ Release("hotkey", "audio", "p_aok", "rest")
    /\ UNCHANGED <<orchVars, audio_arr, text, key_states, audioVars,
                   nextId, captured, running, locksRest>>

\* start_recording raises; the except clause calls feedback.on_error
\* (main.py:488-490).
LStartRaise ==
    /\ Release("hotkey", "audio", "p_araise", "p_err")
    /\ UNCHANGED <<orchVars, audio_arr, text, key_states, audioVars,
                   nextId, captured, running, locksRest>>

\* feedback.on_error returns; the thread waits for state_lock
\* (main.py:490-491).
LPressError ==
    /\ Goto("hotkey", "p_err", "p_eacq")
    /\ UNCHANGED <<holder, orchVars, audio_arr, text, key_states, audioVars,
                   nextId, captured, running, locksRest>>

\* `with state_lock:` of the except clause entered (main.py:491)
LRevertAcquire ==
    /\ Acquire("hotkey", "state", "p_eacq", "p_ewr")
    /\ UNCHANGED <<orchVars, audio_arr, text, key_states, audioVars,
                   nextId, captured, running, locksRest>>

\* state = "IDLE" (main.py:492)
LRevertWrite ==
    /\ Goto("hotkey", "p_ewr", "p_erel")
    /\ state' = "IDLE"
    /\ UNCHANGED <<holder, sample_rate, audio_arr, text, key_states,
                   audioVars, nextId, captured, running, locksRest>>

\* The with block left; the handler returns (main.py:492).
LRevertRelease ==
    /\ Release("hotkey", "state", "p_erel", "rest")
    /\ UNCHANGED <<orchVars, audio_arr, text, key_states, audioVars,
                   nextId, captured, running, locksRest>>

\* ---- main.py on_key_release

\* `with state_lock:` entered (main.py:497)
LReleaseAcquire ==
    /\ Acquire("hotkey", "state", "r_acq", "r_guard")
    /\ UNCHANGED <<orchVars, audio_arr, text, key_states, audioVars,
                   nextId, captured, running, locksRest>>

\* The guard reads state; state = "PROCESSING" when it passes
\* (main.py:498-502).
LReleaseGuard ==
    /\ lpc["hotkey"] = "r_guard"
    /\ IF ReleaseGuardOK
         THEN /\ state' = "PROCESSING"
              /\ lpc' = [lpc EXCEPT !["hotkey"] = "r_set"]
         ELSE /\ lpc' = [lpc EXCEPT !["hotkey"] = "r_ign"]
              /\ UNCHANGED state
    /\ UNCHANGED <<holder, sample_rate, audio_arr, text, key_states,
                   audioVars, nextId, captured, running, locksRest>>

\* `return` out of the with block (main.py:500)
LReleaseIgnored ==
    /\ Release("hotkey", "state", "r_ign", "rest")
    /\ UNCHANGED <<orchVars, audio_arr, text, key_states, audioVars,
                   nextId, captured, running, locksRest>>

\* The with block left; feedback.on_recording_stop() is called
\* (main.py:502-505).
LReleaseRelease ==
    /\ Release("hotkey", "state", "r_set", "r_fb")
    /\ UNCHANGED <<orchVars, audio_arr, text, key_states, audioVars,
                   nextId, captured, running, locksRest>>

\* feedback.on_recording_stop() returns; audio.stop_recording() is called
\* and waits for the recorder's lock (main.py:505-509, audio.py:199).
LReleaseFeedback ==
    /\ Goto("hotkey", "r_fb", "r_aacq")
    /\ UNCHANGED <<holder, orchVars, audio_arr, text, key_states, audioVars,
                   nextId, captured, running, locksRest>>

\* `with self._lock:` of stop_recording entered (audio.py:199)
LStopAcquire ==
    /\ Acquire("hotkey", "audio", "r_aacq", "r_ain")
    /\ UNCHANGED <<orchVars, audio_arr, text, key_states, audioVars,
                   nextId, captured, running, locksRest>>

\* The body of stop_recording (audio.py:200-225)
LStopBody ==
    /\ lpc["hotkey"] = "r_ain"
    /\ \/ /\ StopRecordingOK
          /\ audio_arr' = Concatenate(audio_data')
          /\ lpc' = [lpc EXCEPT !["hotkey"] = "r_aok"]
       \/ /\ StopRecordingNot \/ StopRecordingStreamError
          /\ lpc' = [lpc EXCEPT !["hotkey"] = "r_araise"]
          /\ UNCHANGED audio_arr
    /\ UNCHANGED <<holder, orchVars, text, key_states, nextId, running,
                   locksRest>>

\* stop_recording returns the array (main.py:509-516).
LStopReturn ==
    /\ Release("hotkey", "audio", "r_aok", "r_check")
    /\ UNCHANGED <<orchVars, audio_arr, text, key_states, audioVars,
                   nextId, captured, running, locksRest>>

\* stop_recording raises; the except clause calls feedback.on_error
\* (main.py:539-541).
LStopRaise ==
    /\ Release("hotkey", "audio", "r_araise", "r_err")
    /\ UNCHANGED <<orchVars, audio_arr, text, key_states, audioVars,
                   nextId, captured, running, locksRest>>

\* The minimum-duration test; transcriber.transcribe is called when it
\* passes (main.py:516-525).
LReleaseCheck ==
    /\ Goto("hotkey", "r_check",
            IF TooShort(audio_arr.len, sample_rate) THEN "r_sacq" ELSE "r_tr")
    /\ UNCHANGED <<holder, orchVars, audio_arr, text, key_states, audioVars,
                   nextId, captured, running, locksRest>>

\* `with state_lock:` of the too-short branch entered (main.py:519)
LShortAcquire ==
    /\ Acquire("hotkey", "state", "r_sacq", "r_swr")
    /\ UNCHANGED <<orchVars, audio_arr, text, key_states, audioVars,
                   nextId, captured, running, locksRest>>

\* state = "IDLE" (main.py:520)
LShortWrite ==
    /\ Goto("hotkey", "r_swr", "r_srel")
    /\ state' = "IDLE"
    /\ UNCHANGED <<holder, sample_rate, audio_arr, text, key_states,
                   audioVars, nextId, captured, running, locksRest>>

\* The with block left; `return` runs the finally clause (main.py:520-521).
LShortRelease ==
    /\ Release("hotkey", "state", "r_srel", "r_facq")
    /\ UNCHANGED <<orchVars, audio_arr, text, key_states, audioVars,
                   nextId, captured, running, locksRest>>

\* transcriber.transcribe returns a text or raises; output.output is called
\* for a text that is not blank (main.py:525-531).
LTranscribe ==
    /\ lpc["hotkey"] = "r_tr"
    /\ \/ \E t \in Texts :
            /\ text' = t
            /\ lpc' = [lpc EXCEPT !["hotkey"] =
                           IF Truthy(t) THEN "r_out" ELSE "r_facq"]
       \/ /\ lpc' = [lpc EXCEPT !["hotkey"] = "r_err"]
          /\ UNCHANGED text
    /\ UNCHANGED <<holder, orchVars, audio_arr, key_states, audioVars,
                   nextId, captured, running, locksRest>>

\* output.output returns, and feedback.on_transcription_complete is called,
\* or it raises (main.py:531-534).
LOutput ==
    /\ \/ Goto("hotkey", "r_out", "r_done")
       \/ Goto("hotkey", "r_out", "r_err")
    /\ UNCHANGED <<holder, orchVars, audio_arr, text, key_states, audioVars,
                   nextId, captured, running, locksRest>>

\* feedback.on_transcription_complete returns (main.py:534).
LComplete ==
    /\ Goto("hotkey", "r_done", "r_facq")
    /\ UNCHANGED <<holder, orchVars, audio_arr, text, key_states, audioVars,
                   nextId, captured, running, locksRest>>

\* feedback.on_error of the except clause returns (main.py:539-541).
LReleaseError ==
    /\ Goto("hotkey", "r_err", "r_facq")
    /\ UNCHANGED <<holder, orchVars, audio_arr, text, key_states, audioVars,
                   nextId, captured, running, locksRest>>

\* `with state_lock:` of the finally clause entered (main.py:545)
LFinallyAcquire ==
    /\ Acquire("hotkey", "state", "r_facq", "r_fwr")
    /\ UNCHANGED <<orchVars, audio_arr, text, key_states, audioVars,
                   nextId, captured, running, locksRest>>

\* state = "IDLE" (main.py:546)
LFinallyWrite ==
    /\ Goto("hotkey", "r_fwr", "r_frel")
    /\ state' = FinallyState
    /\ UNCHANGED <<holder, sample_rate, audio_arr, text, key_states,
                   audioVars, nextId, captured, running, locksRest>>

\* The with block left; the handler returns and its locals audio_data and
\* text are gone (main.py:546).
LFinallyRelease ==
    /\ Release("hotkey", "state", "r_frel", "rest")
    /\ audio_arr' = NoArray
    /\ text' = <<>>
    /\ UNCHANGED <<orchVars, key_states, audioVars,
                   nextId, captured, running, locksRest>>

\* ---- the main thread

\* hotkey.start: `with self._lock:` entered (hotkey.py:257)
LResetAcquire ==
    /\ Acquire("main", "key", "mk_acq", "mk_in")
    /\ UNCHANGED <<orchVars, audio_arr, text, key_states, audioVars,
                   nextId, captured, running, locksRest>>

\* self._key_states = {code: False for code in self.key_codes}
\* (hotkey.py:258)
LResetBody ==
    /\ Goto("main", "mk_in", "mk_out")
    /\ key_states' = [c \in key_codes |-> FALSE]
    /\ UNCHANGED <<holder, orchVars, audio_arr, text, audioVars,
                   nextId, captured, running, locksRest>>

\* The with block left (hotkey.py:258-260).
LResetRelease ==
    /\ Release("main", "key", "mk_out", "m_spawn")
    /\ UNCHANGED <<orchVars, audio_arr, text, key_states, audioVars,
                   nextId, captured, running, locksRest>>

\* self._running = True and the monitoring thread is started; the main
\* thread goes on to its idle loop (hotkey.py:261-268, main.py:597-598).
LSpawn ==
    /\ lpc["main"] = "m_spawn"
    /\ lpc["hotkey"] = "unstarted"
    /\ lpc' = [lpc EXCEPT !["main"] = "rest", !["hotkey"] = "rest"]
    /\ running' = TRUE
    /\ UNCHANGED <<holder, orchVars, audio_arr, text, key_states, audioVars,
                   nextId, captured, locksRest>>

\* The idle loop ends and hotkey.stop() clears the running flag
\* (main.py:597-609, hotkey.py:278-285).
LShutdown ==
    /\ Goto("main", "rest", "m_join")
    /\ running' = FALSE
    /\ UNCHANGED <<holder, orchVars, audio_arr, text, key_states, audioVars,
                   nextId, captured, locksRest>>

\* join(timeout=2.0) returns, whether the thread has ended or is still inside
\* a handler; audio.is_recording() is called (hotkey.py:288-301, main.py:614).
LJoin ==
    /\ Goto("main", "m_join", "m_qacq")
    /\ UNCHANGED <<holder, orchVars, audio_arr, text, key_states, audioVars,
                   nextId, captured, running, locksRest>>

\* `with self._lock:` of is_recording entered (audio.py:234)
LIsRecAcquire ==
    /\ Acquire("main", "audio", "m_qacq", "m_qin")
    /\ UNCHANGED <<orchVars, audio_arr, text, key_states, audioVars,
                   nextId, captured, running, locksRest>>

\* return self._recording (audio.py:235)
LIsRecBody ==
    /\ Goto("main", "m_qin", IF recording THEN "m_qyes" ELSE "m_qno")
    /\ UNCHANGED <<holder, orchVars, audio_arr, text, key_states, audioVars,
                   nextId, captured, running, locksRest>>

\* is_recording returns; audio.stop_recording() is called when it returned
\* True (main.py:614-616).
LIsRecRelease ==
    /\ \/ Release("main", "audio", "m_qyes", "m_tacq")
       \/ Release("main", "audio", "m_qno", "done")
    /\ UNCHANGED <<orchVars, audio_arr, text, key_states, audioVars,
                   nextId, captured, running, locksRest>>

\* `with self._lock:` of stop_recording entered (audio.py:199)
LMainStopAcquire ==
    /\ Acquire("main", "audio", "m_tacq", "m_tin")
    /\ UNCHANGED <<orchVars, audio_arr, text, key_states, audioVars,
                   nextId, captured, running, locksRest>>

\* The body of stop_recording; the main thread drops what it returns or
\* raises (audio.py:200-225, main.py:615-618).
LMainStopBody ==
    /\ Goto("main", "m_tin", "m_tout")
    /\ StopRecordingOK \/ StopRecordingNot \/ StopRecordingStreamError
    /\ UNCHANGED <<holder, orchVars, audio_arr, text, key_states, nextId,
                   running, locksRest>>

\* stop_recording left (main.py:616-621).
LMainStopRelease ==
    /\ Release("main", "audio", "m_tout", "done")
    /\ UNCHANGED <<orchVars, audio_arr, text, key_states, audioVars,
                   nextId, captured, running, locksRest>>

\* ---- the specification

InitLocks ==
    /\ state = "IDLE"
    /\ sample_rate \in SampleRates
    /\ ppc = "idle"
    /\ rpc = "idle"
    /\ audio_arr = NoArray
    /\ text = <<>>
    /\ key_states = [c \in key_codes |-> FALSE]
    /\ lastEv = NoEv
    /\ recording = FALSE
    /\ stream = "none"
    /\ audio_queue = <<>>
    /\ audio_data = <<>>
    /\ nextId = 1
    /\ captured = <<>>
    /\ cyc = NewCycle
    /\ inflight = 0
    \* hotkey.start(...) has opened the devices and reached line 257
    /\ running = FALSE
    /\ thread = 0
    /\ tpc = [t \in Threads |-> "none"]
    /\ devices = Devices
    /\ selector = "open"
    /\ spc = "idle"
    /\ phys = {}
    /\ hkLast = NoRead
    /\ lastCall = NoCall
    /\ bal = 0
    /\ holder = NoLocks
    /\ apc = [c \in Clients |-> "idle"]
    /\ alast = NoAudioCall
    /\ orphans = 0
    /\ lpc = [AtRest EXCEPT !["hotkey"] = "unstarted", !["main"] = "mk_acq"]
    /\ kbuf = NoBuf
    /\ edge = NoEdges

NextLocks ==
    \/ \E is_press \in BOOLEAN : LKeyEvent(is_press)
    \/ \E is_press \in BOOLEAN : LKeyAcquire(is_press)
    \/ \E code \in key_codes, is_press \in BOOLEAN : LKeyBody(code, is_press)
    \/ LKeySkip
    \/ \E is_press \in BOOLEAN : LKeyRelease(is_press)
    \/ LListenExit
    \/ LPressAcquire
    \/ LPressGuard
    \/ LPressIgnored
    \/ LPressRelease
    \/ LPressFeedback
    \/ LStartAcquire
    \/ LStartBody
    \/ LStartReturn
    \/ LStartRaise
    \/ LPressError
    \/ LRevertAcquire
    \/ LRevertWrite
    \/ LRevertRelease
    \/ LReleaseAcquire
    \/ LReleaseGuard
    \/ LReleaseIgnored
    \/ LReleaseRelease
    \/ LReleaseFeedback
    \/ LStopAcquire
    \/ LStopBody
    \/ LStopReturn
    \/ LStopRaise
    \/ LReleaseCheck
    \/ LShortAcquire
    \/ LShortWrite
    \/ LShortRelease
    \/ LTranscribe
    \/ LOutput
    \/ LComplete
    \/ LReleaseError
    \/ LFinallyAcquire
    \/ LFinallyWrite
    \/ LFinallyRelease
    \/ LResetAcquire
    \/ LResetBody
    \/ LResetRelease
    \/ LSpawn
    \/ LShutdown
    \/ LJoin
    \/ LIsRecAcquire
    \/ LIsRecBody
    \/ LIsRecRelease
    \/ LMainStopAcquire
    \/ LMainStopBody
    \/ LMainStopRelease
    \/ \E size \in FrameSizes : AudioCallback(size)

SpecLocks == InitLocks /\ [][NextLocks]_vars

\* The positions of the three threads.
HotkeyPcs ==
    {"unstarted", "rest", "exited", "kp_acq", "kr_acq", "kp_in", "kr_in",
     "k_skip", "kp_out", "kr_out",
     "p_acq", "p_guard", "p_ign", "p_set", "p_fb", "p_aacq", "p_ain", "p_aok",
     "p_araise", "p_err", "p_eacq", "p_ewr", "p_erel",
     "r_acq", "r_guard", "r_ign", "r_set", "r_fb", "r_aacq", "r_ain", "r_aok",
     "r_araise", "r_check", "r_sacq", "r_swr", "r_srel", "r_tr", "r_out",
     "r_done", "r_err", "r_facq", "r_fwr", "r_frel"}

MainPcs ==
    {"mk_acq", "mk_in", "mk_out", "m_spawn", "rest", "m_join", "m_qacq",
     "m_qin", "m_qyes", "m_qno", "m_tacq", "m_tin", "m_tout", "done"}

TypeOKLocks ==
    /\ state \in {"IDLE", "RECORDING", "PROCESSING"}
    /\ lpc["hotkey"] \in HotkeyPcs
    /\ lpc["main"] \in MainPcs
    /\ lpc["portaudio"] = "rest"
    /\ holder \in [Locks -> Clients \cup {"free"}]
    /\ recording \in BOOLEAN
    /\ stream \in {"none", "opened", "active"}

\* ------------------------------------------- the keyboard's event buffer
\*
\* run_daemon with the device's buffer between the keyboard and _listen_loop:
\* a key event occurs when the key moves, whatever the daemon is doing, and
\* waits in the buffer until device.read() takes it (hotkey.py:174).

\* The key events of the watched keys that can wait unread.
MaxPending == 1

\* A watched key is pressed or released on the keyboard; the event is
\* stamped with whether the state is PROCESSING at that moment.
KeyOccurs(code, value) ==
    /\ Len(kbuf.q) < MaxPending
    /\ LET ev == [type |-> "EV_KEY", code |-> code, value |-> value] IN
         /\ Emits("kbdA", ev)
         /\ phys' = PhysAfter("kbdA", ev)
    /\ kbuf' = [kbuf EXCEPT
                  !.q = Append(@, [code |-> code, value |-> value,
                                   proc |-> (state = "PROCESSING")])]
    /\ UNCHANGED <<running, thread, tpc, devices, selector, spc, hkLast,
                   lastCall, bal, daemonVars, key_states, holder, apc, alast,
                   orphans, lpc, edge>>

\* `for event in device.read()`: the loop takes the oldest unread event, when
\* it is not inside a callback (hotkey.py:174-210).
ReadBuffered ==
    /\ kbuf.q # <<>>
    /\ LET ev == Head(kbuf.q) IN
         /\ ListenStep("EV_KEY", ev.code, ev.value)
         /\ kbuf' = [q |-> Tail(kbuf.q), cur |-> ev.proc]
    /\ UNCHANGED <<listenerVars, holder, apc, alast, orphans, lpc, edge>>

NextBuf ==
    \/ \E code \in key_codes, value \in {0, 1} : KeyOccurs(code, value)
    \/ ReadBuffered
    \/ \E size \in FrameSizes : AudioCallback(size)
    \/ PressIgnored
    \/ PressAccept
    \/ PressFeedback
    \/ PressStart
    \/ PressError
    \/ PressRevert
    \/ ReleaseIgnored
    \/ ReleaseAccept
    \/ ReleaseFeedback
    \/ ReleaseStop
    \/ ReleaseTooShort
    \/ TranscribeCall
    \/ \E t \in Texts : TranscribeReturn(t)
    \/ TranscribeRaise
    \/ Output
    \/ ReleaseComplete
    \/ ReleaseExcept
    \/ ReleaseFinally

SpecBuf == Init /\ [][NextBuf]_vars

\* ------------------------------------ the threads around the key-state lock
\*
\* The HotkeyListener with the steps of one event taken apart: the event is
\* read, the lock is taken, the key state is compared and updated and the
\* lock released, and only then the callback is called (hotkey.py:174-210).
\* start() and stop() are called by one other thread; the join of stop() can
\* time out (hotkey.py:288-291), so a thread started earlier can still be alive
\* after the next start().  edge.owner is 0 when the lock is free, else the
\* thread inside it.

\* Variables no step of this section changes.
edgeRest ==
    <<daemonVars, tpc, devices, selector, phys, hkLast, lastCall, bal, holder,
      apc, alast, orphans, lpc, kbuf>>

\* start(): the guard, the key states reset under the lock, _running set and
\* a new thread started (hotkey.py:239-268).  The with block is taken when
\* the lock is free.
EStart(t) ==
    /\ spc = "idle"
    /\ StartGuardOK
    /\ edge.owner = 0
    /\ edge.pc[t] = "none"
    /\ \A u \in Threads : u < t => edge.pc[u] # "none"
    /\ key_states' = [c \in key_codes |-> FALSE]
    /\ running' = TRUE
    /\ thread' = t
    /\ edge' = [edge EXCEPT !.pc[t] = "select",
                            !.fired = [c \in key_codes |-> "none"]]
    /\ UNCHANGED <<spc, edgeRest>>

\* stop(): _running cleared, then the join (hotkey.py:278-289)
EStopBegin ==
    /\ spc = "idle"
    /\ running
    /\ running' = FALSE
    /\ spc' = "join"
    /\ UNCHANGED <<thread, key_states, edge, edgeRest>>

\* join(timeout=2.0) returns, the thread ended or not; stop() forgets the
\* thread and returns (hotkey.py:289-301).
EStopReturn ==
    /\ spc = "join"
    /\ JoinReturns
    /\ spc' = "idle"
    /\ thread' = 0
    /\ UNCHANGED <<running, key_states, edge, edgeRest>>

\* Thread t passed `while self._running` and read an event of a watched key
\* that is no repeat (hotkey.py:164-188).
ERead(t, code, is_press) ==
    /\ edge.pc[t] = "select"
    /\ running
    /\ edge' = [edge EXCEPT !.pc[t] = "wait",
                            !.ev[t] = [code |-> code, press |-> is_press]]
    /\ UNCHANGED <<running, thread, spc, key_states, edgeRest>>

\* `with self._lock:` entered (hotkey.py:191)
ELock(t) ==
    /\ edge.pc[t] = "wait"
    /\ edge.owner = 0
    /\ edge' = [edge EXCEPT !.pc[t] = "locked", !.owner = t]
    /\ UNCHANGED <<running, thread, spc, key_states, edgeRest>>

\* The body and the end of the with block: the state is compared and, when it
\* differs, updated; the lock is released (hotkey.py:192-199).
EUpdate(t) ==
    /\ edge.pc[t] = "locked"
    /\ LET ev == edge.ev[t] IN
         IF StateUnchanged(ev.code, ev.press)
         THEN /\ edge' = [edge EXCEPT !.pc[t] = "select", !.owner = 0]
              /\ UNCHANGED key_states
         ELSE /\ key_states' = [key_states EXCEPT ![ev.code] = ev.press]
              /\ edge' = [edge EXCEPT !.pc[t] = "due", !.owner = 0]
    /\ UNCHANGED <<running, thread, spc, edgeRest>>

\* on_press() or on_release() is called (hotkey.py:201-207).
EInvoke(t) ==
    /\ edge.pc[t] = "due"
    /\ edge' = [edge EXCEPT
                  !.pc[t] = "call",
                  !.fired[edge.ev[t].code] =
                      IF edge.ev[t].press THEN "press" ELSE "release"]
    /\ UNCHANGED <<running, thread, spc, key_states, edgeRest>>

\* The callback returns, or raises and is logged (hotkey.py:203-210).
EReturn(t) ==
    /\ edge.pc[t] = "call"
    /\ edge' = [edge EXCEPT !.pc[t] = "select"]
    /\ UNCHANGED <<running, thread, spc, key_states, edgeRest>>

\* `while self._running` found false: the thread ends (hotkey.py:164, 225).
EExit(t) ==
    /\ edge.pc[t] = "select"
    /\ ~running
    /\ edge' = [edge EXCEPT !.pc[t] = "done"]
    /\ UNCHANGED <<running, thread, spc, key_states, edgeRest>>

NextEdge ==
    \/ \E t \in Threads : EStart(t)
    \/ EStopBegin
    \/ EStopReturn
    \/ \E t \in Threads, code \in key_codes, is_press \in BOOLEAN :
         ERead(t, code, is_press)
    \/ \E t \in Threads : ELock(t)
    \/ \E t \in Threads : EUpdate(t)
    \/ \E t \in Threads : EInvoke(t)
    \/ \E t \in Threads : EReturn(t)
    \/ \E t \in Threads : EExit(t)

SpecEdge == InitHK /\ [][NextEdge]_vars

\* ------------------------------------------------------------ properties

Count(seq, ev) == Cardinality({i \in DOMAIN seq : seq[i] = ev})

ThreeTransitions ==
    {<<"IDLE", "RECORDING">>, <<"RECORDING", "PROCESSING">>,
     <<"PROCESSING", "IDLE">>}

\* C1 (as stated): every change of state is IDLE->RECORDING,
\* RECORDING->PROCESSING or PROCESSING->IDLE.
C1_OnlyThreeTransitions ==
    [][state' # state => <<state, state'>> \in ThreeTransitions]_vars

\* C1 (amended): every change of state is one of the three transitions, or
\* RECORDING->IDLE made by on_key_press's except clause after
\* audio.start_recording raised.
C1_TransitionsWithRevert ==
    [][state' # state =>
         \/ <<state, state'>> \in ThreeTransitions
         \/ /\ <<state, state'>> = <<"RECORDING", "IDLE">>
            /\ ppc = "p_revert"
            /\ cyc.startres = "raised"]_vars

\* A failed start has reverted RECORDING to IDLE.
C1_Witness ==
    /\ state = "IDLE"
    /\ ppc = "idle"
    /\ cyc.startres = "raised"
    /\ cyc.fb = <<"recording_start", "error">>

\* C2: once on_key_release has passed its guard, the state is IDLE when the
\* handler returns, whatever raised on the way; outside the handlers the
\* state is never PROCESSING.
C2_ReleaseEndsIdle ==
    /\ [][(rpc \notin {"idle", "r_guard"} /\ rpc' = "idle")
            => state' = "IDLE"]_vars
    /\ [](~InCallback => state # "PROCESSING")

\* The release handler has returned after output.output raised.
C2_Witness ==
    /\ rpc = "idle"
    /\ state = "IDLE"
    /\ cyc.ores = "raised"
    /\ cyc.fb = <<"recording_start", "recording_stop", "error">>

\* C3: an edge whose guard fails returns at once: state, recorder, the
\* cycle's feedback/transcriber/output history and the other handler are
\* unchanged.
C3_GuardFailNoOp ==
    [][/\ (ppc = "p_guard" /\ state # "IDLE" /\ ppc' # ppc)
            => (ppc' = "idle"
                /\ UNCHANGED <<state, audioVars, cyc, inflight, rpc>>)
       /\ (rpc = "r_guard" /\ state # "RECORDING" /\ rpc' # rpc)
            => (rpc' = "idle"
                /\ UNCHANGED <<state, audioVars, cyc, inflight, ppc>>)]_vars

\* A release edge after a failed start: on_release ran, was ignored and
\* added nothing to the cycle's history.
C3_Witness ==
    /\ lastEv.value = 0
    /\ lastEv.before
    /\ ~InCallback
    /\ state = "IDLE"
    /\ cyc.fb = <<"recording_start", "error">>

\* C4: after audio.start_recording failed in on_key_press and the handler
\* returned, the state is IDLE, one error event was sent and the recorder
\* is not recording.
C4_StartFailureRecovers ==
    (cyc.startres = "raised" /\ ppc = "idle")
        => /\ state = "IDLE"
           /\ Count(cyc.fb, "error") = 1
           /\ ~recording
           /\ stream # "active"

\* C5: a capture below int(0.1 * sample_rate) samples reaches neither the
\* transcriber nor output and ends in IDLE; a capture at or above it is
\* handed to the transcriber.
C5_MinDuration ==
    /\ (cyc.stopres = "ok" /\ cyc.n < MinSamples(sample_rate))
         => /\ cyc.tcalls = 0
            /\ cyc.ocalls = 0
            /\ rpc \in {"r_check", "r_finally", "idle", "r_guard"}
            /\ rpc \in {"idle", "r_guard"} => state = "IDLE"
    /\ (cyc.stopres = "ok" /\ cyc.n >= MinSamples(sample_rate)
          /\ rpc # "r_check")
         => cyc.tcalls >= 1

\* A non-empty capture below the threshold was skipped.
C5_Witness ==
    /\ cyc.stopres = "ok"
    /\ cyc.n > 0
    /\ cyc.n < MinSamples(sample_rate)
    /\ rpc = "idle"
    /\ state = "IDLE"

\* C6: a cycle whose capture reached the threshold calls the transcriber
\* exactly once, with the concatenation of the frames pushed between that
\* cycle's start and stop.
C6_OneCallExactBuffer ==
    /\ cyc.tcalls <= 1
    /\ cyc.tcalls = 1 => cyc.txArg = Concatenate(captured)
    /\ (cyc.stopres = "ok" /\ cyc.n >= MinSamples(sample_rate)
          /\ rpc \notin {"r_check"})
         => cyc.tcalls = 1

\* A transcription call is running on a buffer of two or more frames.
C6_Witness ==
    /\ rpc = "r_transcribe"
    /\ cyc.tcalls = 1
    /\ Len(cyc.txArg.chunks) >= 2

\* C7: after the transcriber raised, feedback got an error event and no
\* transcription-complete event, output was not called, and the handler
\* returns with state IDLE and the recorder stopped.
C7_TranscribeFailure ==
    cyc.tres = "raised"
        => /\ cyc.ocalls = 0
           /\ Count(cyc.fb, "transcription_complete") = 0
           /\ rpc \in {"r_finally", "idle"} => Count(cyc.fb, "error") = 1
           /\ rpc = "idle" => (state = "IDLE" /\ ~recording)

\* The release handler has returned after the transcriber raised.
C7_Witness ==
    /\ cyc.tres = "raised"
    /\ rpc = "idle"
    /\ state = "IDLE"

C9_Serialized ==
    /\ [][(recording' /\ ~recording) => rpc = "idle"]_vars
    /\ [](inflight <= 1)
    /\ [](rpc \notin {"idle", "r_guard"} => ppc \in {"idle", "p_guard"})

\* A second session is recording after an earlier one delivered frames.
C9_Witness ==
    /\ recording
    /\ captured = <<>>
    /\ nextId > 1
    /\ rpc = "idle"

\* C10: a press event for a key recorded as pressed, and a release event for
\* a key recorded as released, start no callback and leave the key state.
C10_EdgesOnly ==
    (lastEv # NoEv /\ lastEv.before = (lastEv.value = 1))
        => /\ ppc = "idle"
           /\ rpc = "idle"
           /\ key_states[lastEv.code] = lastEv.before

\* A press event was read for a key already recorded as pressed.
C10_Witness ==
    /\ lastEv # NoEv
    /\ lastEv.value = 1
    /\ lastEv.before

\* ------------------------------------------- properties of the listener

\* C11: reading an auto-repeat event (value 2) invokes no callback and changes
\* no key state, so the callbacks of a press, its repeats and its release are
\* those of the press and the release alone.
C11_RepeatIgnored ==
    [][(hkLast' # hkLast /\ hkLast'.kind = "repeat") =>
         /\ key_states' = key_states
         /\ tpc' = tpc
         /\ bal' = bal]_vars

\* A repeat was read while the key is held, after on_press has returned.
C11_Witness ==
    /\ hkLast.kind = "repeat"
    /\ running
    /\ tpc[thread] = "select"
    /\ bal = 1
    /\ \E c \in key_codes : key_states[c]

\* C12 (as stated): at every point the number of on_press invocations minus
\* the number of on_release invocations since start() is 0 or 1.
C12_Alternate == bal \in {0, 1}

\* The listener's own record of the monitored keys, OR-reduced: some key of
\* the Control group is down.
Combo(ks) == \E c \in key_codes : ks[c]

\* C13 (as stated): on_press is invoked only when the combo goes from inactive
\* to active, on_release only when it goes from active to inactive.
C13_ComboEdgesOnly ==
    [][\A t \in Threads :
         /\ (tpc[t] = "select" /\ tpc'[t] = "press") =>
                (~Combo(key_states) /\ Combo(key_states'))
         /\ (tpc[t] = "select" /\ tpc'[t] = "release") =>
                (Combo(key_states) /\ ~Combo(key_states'))]_vars

\* Some key of the group is physically held on a monitored keyboard.
GroupHeld(ph, devs) == \E p \in ph : p[1] \in devs

\* C14 (as stated): on_release is not invoked while a key of the group is
\* still held on a monitored keyboard, and on_press is not invoked when a key
\* of the group was already held.
C14_GroupOrReduced ==
    [][\A t \in Threads :
         /\ (tpc[t] = "select" /\ tpc'[t] = "release") =>
                ~GroupHeld(phys', devices)
         /\ (tpc[t] = "select" /\ tpc'[t] = "press") =>
                ~GroupHeld(phys, devices)]_vars

\* A monitoring thread took the `except OSError` branch in this step.
ReadErrorStep ==
    \/ hkLast' # hkLast /\ hkLast'.kind = "OSError"
    \/ devices' # devices /\ devices' \subseteq devices /\ selector' = "open"

\* C15: a read failure on one device removes that device from the monitored
\* set and nothing else: no thread ends, _running and the key states stay,
\* the other devices stay registered.  While the listener runs its thread is
\* alive and its selector open, with or without devices.
C15_ReadErrorKeepsListening ==
    /\ [][ReadErrorStep =>
            /\ hkLast'.kind = "OSError"
            /\ hkLast'.dev \in devices
            /\ devices' = devices \ {hkLast'.dev}
            /\ running' = running
            /\ thread' = thread
            /\ tpc' = tpc
            /\ selector' = selector
            /\ key_states' = key_states]_vars
    /\ [](running =>
            /\ thread \in Threads
            /\ tpc[thread] \notin {"none", "done"}
            /\ selector = "open")

\* Every device has failed; the listener still runs and its loop waits.
C15_Witness ==
    /\ hkLast.kind = "OSError"
    /\ devices = {}
    /\ running
    /\ spc = "idle"
    /\ tpc[thread] = "select"

\* C16: a callback that raises leaves its thread in the loop: from the call
\* the thread goes to the except clause or back to select(), from the except
\* clause back to select(); the key state written for the edge stays; a
\* thread ends only at the top of the loop, when _running is false.
C16_CallbackErrorSurvived ==
    [][\A t \in Threads :
         /\ (tpc[t] \in {"press", "release"} /\ tpc'[t] # tpc[t]) =>
                (tpc'[t] \in {"select", "caught"} /\ key_states' = key_states)
         /\ (tpc[t] = "caught" /\ tpc'[t] # tpc[t]) =>
                (tpc'[t] = "select" /\ key_states' = key_states)
         /\ (tpc[t] # "done" /\ tpc'[t] = "done") =>
                (tpc[t] = "select" /\ ~running)]_vars

\* on_press has raised: the thread is in the except clause, the listener
\* runs, the key is recorded as down.
C16_Witness ==
    /\ running
    /\ thread \in Threads
    /\ tpc[thread] = "caught"
    /\ Combo(key_states)
    /\ bal = 1

\* C17: start() on a running listener raises and changes nothing; as long as
\* _running stays true nothing replaces the thread or the selector, spawns a
\* thread, adds a device or resets the key states.
C17_StartWhileRunning ==
    /\ [][(lastCall' # lastCall /\ lastCall'.op = "start"
             /\ lastCall'.wasRunning) =>
            /\ lastCall'.res = "raised"
            /\ UNCHANGED <<running, thread, tpc, devices, selector,
                           key_states>>]_vars
    /\ [][(running /\ running') =>
            /\ thread' = thread
            /\ selector' = selector
            /\ devices' \subseteq devices
            /\ \A t \in Threads :
                   tpc[t] \in {"none", "done"} => tpc'[t] = tpc[t]
            /\ \A c \in key_codes :
                   key_states'[c] # key_states[c] =>
                       \E t \in Threads :
                           tpc[t] = "select" /\ tpc'[t] \in {"press", "release"}
          ]_vars

\* start() was called and refused while a key is down and a callback runs.
C17_Witness ==
    /\ lastCall.op = "start"
    /\ lastCall.wasRunning
    /\ lastCall.res = "raised"
    /\ running
    /\ tpc[thread] = "press"
    /\ devices # {}
    /\ Combo(key_states)

\* C18: a start() that finds no keyboard, or opens none, raises, spawns no
\* thread and leaves the listener not running with no device; a listener
\* begins to run only with a device, a thread at select() and a selector.
C18_StartWithoutDevices ==
    /\ [][(lastCall' # lastCall /\ lastCall'.op = "start"
             /\ ~lastCall'.wasRunning /\ ~lastCall'.opened) =>
            /\ lastCall'.res = "raised"
            /\ tpc' = tpc
            /\ thread' = thread
            /\ ~running'
            /\ devices' = {}]_vars
    /\ [][(~running /\ running') =>
            /\ devices' # {}
            /\ selector' = "open"
            /\ thread' \in Threads
            /\ tpc[thread'] \in {"none", "done"}
            /\ tpc'[thread'] = "select"]_vars
    /\ [](StartFailedBefore => (~running /\ devices = {}))

\* A start() that succeeded directly after one that failed for want of a
\* device.
C18_Witness ==
    /\ lastCall.op = "start"
    /\ lastCall.res = "ok"
    /\ lastCall.prevFailed
    /\ running
    /\ devices # {}
    /\ tpc[thread] = "select"

\* C19 (as stated): once a stop() has returned the listener is not running,
\* its device set is empty and its selector is released.
C19_StopReleasesAll ==
    (lastCall.op = "stop" /\ lastCall.res = "returned") =>
        (~running /\ devices = {} /\ selector = "none")

\* C20: a stop() that has begun returns, whatever the monitoring threads do
\* and even if none of them ever leaves its callback.
C20_StopReturns ==
    (spc # "idle") ~>
        (spc = "idle" /\ lastCall.op = "stop" /\ lastCall.res = "returned")

\* stop() has returned and cleaned up while the thread it stopped is still
\* inside on_release.
C20_Witness ==
    /\ spc = "idle"
    /\ lastCall.op = "stop"
    /\ lastCall.wasRunning
    /\ lastCall.res = "returned"
    /\ ~running
    /\ selector = "none"
    /\ \E t \in Threads : tpc[t] = "release"

\* ------------------------------------- properties of the release handler

\* C30 (as stated): when a release handler that passed its guard returns, it
\* has written IDLE to the state variable exactly once.
C30_IdleWrittenOnce ==
    [][(rpc = "r_finally" /\ rpc' = "idle") => cyc'.idle_writes = 1]_vars

\* ------------------------------------------- properties of the recorder

\* Streams that were opened and not closed: the one _stream refers to and
\* the ones it referred to before.
OpenStreams == (IF stream = "none" THEN 0 ELSE 1) + orphans

\* C21 (as stated): start_recording on an open session raises and leaves the
\* flag, the stream, the queue and the accumulated frames as they are, and at
\* most one capture stream is open at any time.
C21_OneSession ==
    /\ [][\A c \in Clients :
            (apc[c] = "s_check" /\ recording /\ apc'[c] # apc[c]) =>
                /\ alast'.op = "start_recording"
                /\ alast'.res = "RuntimeError"
                /\ UNCHANGED <<recording, stream, audio_queue,
                               audio_data>>]_vars
    /\ [](OpenStreams <= 1)

\* C22: stop_recording with no session open raises RuntimeError and leaves
\* the flag, the stream, the queue and the accumulated frames as they are.
C22_StopWithoutSession ==
    [][\A c \in Clients :
         (apc[c] = "t_check" /\ ~recording /\ apc'[c] # apc[c]) =>
             /\ apc'[c] = "idle"
             /\ alast'.op = "stop_recording"
             /\ alast'.res = "RuntimeError"
             /\ UNCHANGED <<recording, stream, audio_queue, audio_data>>]_vars

\* stop_recording was refused after a session that captured frames had been
\* stopped; the frames it accumulated are still there.
C22_Witness ==
    /\ alast.op = "stop_recording"
    /\ alast.res = "RuntimeError"
    /\ ~recording
    /\ stream = "none"
    /\ audio_data # <<>>

\* stop_recording returns its array in this step.
StopReturns(c) == apc[c] = "t_drain" /\ apc'[c] = "idle"

\* The samples of those of the frames whose identity is in ids.
RECURSIVE SamplesOf(_, _)
SamplesOf(frames, ids) ==
    IF frames = <<>> THEN 0
    ELSE (IF Head(frames).id \in ids THEN Head(frames).n ELSE 0)
             + SamplesOf(Tail(frames), ids)

Range(seq) == {seq[i] : i \in DOMAIN seq}

\* C23: the array stop_recording returns holds its frames in arrival order
\* (frame identities count arrivals), sample for sample, and is the
\* zero-length array when no frame was pushed.
C23_ArrivalOrder ==
    [][\A c \in Clients :
         StopReturns(c) =>
             LET arr == alast'.arr IN
             /\ alast'.op = "stop_recording" /\ alast'.res = "ok"
             /\ \A i, j \in DOMAIN arr.chunks :
                    i < j => arr.chunks[i] < arr.chunks[j]
             /\ arr.len = SamplesOf(captured, Range(arr.chunks))
             /\ captured = <<>> => (arr.len = 0 /\ arr.chunks = <<>>)]_vars

\* stop_recording has returned three frames, of different sizes.
C23_Witness ==
    /\ alast.op = "stop_recording"
    /\ alast.res = "ok"
    /\ Len(alast.arr.chunks) = 3
    /\ alast.arr.chunks = <<1, 2, 3>>
    /\ alast.arr.len = 400 + 1200 + 400

\* C24: when stop_recording returns, every frame pushed since the stream was
\* started is in the array exactly once, no frame is in it twice, and the
\* queue is empty.
C24_NoLossNoDuplicate ==
    [][\A c \in Clients :
         StopReturns(c) =>
             LET arr == alast'.arr IN
             /\ \A k \in DOMAIN captured :
                    Cardinality({i \in DOMAIN arr.chunks :
                                   arr.chunks[i] = captured[k].id}) = 1
             /\ \A i, j \in DOMAIN arr.chunks :
                    arr.chunks[i] = arr.chunks[j] => i = j
             /\ audio_queue' = <<>>]_vars

\* stop_recording has returned the two frames the callback pushed and has
\* left the queue empty.
C24_Witness ==
    /\ alast.op = "stop_recording"
    /\ alast.res = "ok"
    /\ Len(captured) = 2
    /\ Range(alast.arr.chunks) = {captured[k].id : k \in DOMAIN captured}
    /\ audio_queue = <<>>
    /\ ~recording
    /\ stream = "none"

\* C25: the array stop_recording returns holds only frames pushed since the
\* stream of its own session was started.
C25_SessionsIsolated ==
    [][\A c \in Clients :
         StopReturns(c) =>
             Range(alast'.arr.chunks)
                 \subseteq {captured[k].id : k \in DOMAIN captured}]_vars

\* A second session has returned its own frame only, after a first session
\* that had returned other frames.
C25_Witness ==
    /\ alast.op = "stop_recording"
    /\ alast.res = "ok"
    /\ Len(captured) = 1
    /\ captured[1].id > 1
    /\ alast.arr.chunks = <<captured[1].id>>
    /\ audio_data = captured

\* C26: whenever the stream is active (and the hardware has a frame to
\* deliver) the callback can push it, whoever holds the recorder's lock and
\* whatever the queue holds.
C26_CallbackNeverBlocks ==
    (stream = "active" /\ nextId <= MaxFrames) =>
        ENABLED (\E size \in FrameSizes : ARCallback(size))

\* A thread holds the recorder's lock inside stop_recording, the stream is
\* still active, frames are queued and the hardware has another one.
C26_Witness ==
    /\ \E c \in Clients : apc[c] = "t_stop" /\ holder["audio"] = c
    /\ stream = "active"
    /\ Len(audio_queue) >= 2
    /\ nextId <= MaxFrames

\* C29: is_recording and get_audio_duration are evaluated by the thread that
\* holds the recorder's lock and change no field of the recorder;
\* is_recording gives the flag, get_audio_duration the samples in the queue
\* plus those accumulated.
C29_QueriesReadOnly ==
    [][\A c \in Clients :
         (apc[c] \in {"q_rec", "q_dur"} /\ apc'[c] # apc[c]) =>
             /\ holder["audio"] = c
             /\ UNCHANGED <<recording, stream, audio_queue, audio_data>>
             /\ apc[c] = "q_rec" =>
                    (alast'.op = "is_recording" /\ alast'.flag = recording)
             /\ apc[c] = "q_dur" =>
                    /\ alast'.op = "get_audio_duration"
                    /\ alast'.num = SumLen(audio_queue) + SumLen(audio_data)
          ]_vars

\* get_audio_duration has counted the frames of the recording last stopped,
\* which are in the accumulated list.
C29_Witness ==
    /\ alast.op = "get_audio_duration"
    /\ alast.num = SumLen(audio_data)
    /\ Len(audio_data) >= 2
    /\ audio_queue = <<>>
    /\ ~recording


\* ------------------------------------------------ properties of the locks

\* Positions at which a thread reads or writes `state`: the two guards with
\* their assignments (main.py:476-480, 498-502) and the three assignments of
\* "IDLE" (main.py:492, 520, 546).
StateAccessPcs == {"p_guard", "r_guard", "p_ewr", "r_swr", "r_fwr"}

\* Positions at which a thread is inside audio.start_recording or
\* audio.stop_recording (waiting for the recorder's lock included),
\* transcriber.transcribe, output.output or a call of feedback.
DownstreamPcs ==
    {"p_fb", "p_aacq", "p_ain", "p_aok", "p_araise", "p_err",
     "r_fb", "r_aacq", "r_ain", "r_aok", "r_araise", "r_tr", "r_out",
     "r_done", "r_err", "m_tacq", "m_tin", "m_tout"}

StateLockDiscipline ==
    \A t \in Clients :
        /\ lpc[t] \in StateAccessPcs => holder["state"] = t
        /\ lpc[t] \in DownstreamPcs => holder["state"] # t

\* C27: every read and write of `state` is made by a thread that holds
\* state_lock, and no thread holds state_lock while it is inside
\* audio.start_recording, audio.stop_recording, the transcription call,
\* output dispatch or a feedback call.
C27_StateUnderLock ==
    [][/\ StateLockDiscipline
       /\ StateLockDiscipline'
       /\ state' # state =>
              \E t \in Clients :
                  /\ lpc[t] \in StateAccessPcs
                  /\ holder["state"] = t
                  /\ holder'["state"] = t
      ]_vars

\* A transcription is running, outside state_lock, with the state it left
\* behind under the lock.
C27_Witness ==
    /\ lpc["hotkey"] = "r_tr"
    /\ state = "PROCESSING"
    /\ holder["state"] = "free"

\* The locks thread t is inside.
HeldBy(t) == {l \in Locks : holder[l] = t}

\* Thread t is blocked, or about to block, in the acquire of lock l.
WaitsFor(t, l) ==
    \/ l = "key" /\ lpc[t] \in {"kp_acq", "kr_acq", "mk_acq"}
    \/ l = "state" /\ lpc[t] \in {"p_acq", "p_eacq", "r_acq", "r_sacq", "r_facq"}
    \/ l = "audio" /\ lpc[t] \in {"p_aacq", "r_aacq", "m_qacq", "m_tacq"}

\* Every thread of S waits for a lock that a thread of S is inside.
Deadlocked(S) ==
    /\ S # {}
    /\ \A t \in S : \E l \in Locks : WaitsFor(t, l) /\ holder[l] \in S

\* C28: no thread is inside two of the three locks at once, no thread waits
\* for one of them while inside another, and no set of threads is
\* deadlocked on them.
C28_NoNestedLocks ==
    /\ \A t \in DaemonThreads : Cardinality(HeldBy(t)) <= 1
    /\ \A t \in DaemonThreads, l \in Locks : WaitsFor(t, l) => HeldBy(t) = {}
    /\ \A S \in SUBSET DaemonThreads : ~Deadlocked(S)

\* The main thread waits for the recorder's lock while the monitoring thread
\* is inside stop_recording, and the audio thread can still deliver a frame.
C28_Witness ==
    /\ WaitsFor("main", "audio")
    /\ lpc["hotkey"] = "r_ain"
    /\ holder["audio"] = "hotkey"
    /\ stream = "active"
    /\ state = "PROCESSING"

\* ------------------------------------- properties of the monitoring thread

\* C31: while a transcription call is in progress the monitoring thread keeps
\* reading and decoding key events: the loop can take its next event.
C31_ListensWhileTranscribing ==
    rpc = "r_transcribe" =>
        ENABLED (\E type \in EventTypes, code \in EventCodes,
                    value \in EventValues : ListenEvent(type, code, value))

\* C32: a key press that occurs while the state is PROCESSING never causes a
\* transition to RECORDING, neither when it occurs nor when it is read after
\* the previous cycle has finished.
C32_PressInProcessingIgnored ==
    [][(state # "RECORDING" /\ state' = "RECORDING") => ~kbuf.cur]_vars

\* C33: a read failure on a device removes it from the key-state bookkeeping
\* too: a key that was held on the failed device, and on no other, is no
\* longer recorded as pressed once the except clause has run.
C33_ReadErrorClearsKeys ==
    [][ReadErrorStep =>
         \A c \in key_codes :
             (/\ <<hkLast'.dev, c>> \in phys
              /\ \A d \in Devices \ {hkLast'.dev} : <<d, c>> \notin phys)
                 => ~key_states'[c]]_vars

\* Positions of the monitoring thread inside on_press() or on_release().
CallbackPcs ==
    HotkeyPcs \ {"unstarted", "rest", "exited", "kp_acq", "kr_acq", "kp_in",
                 "kr_in", "k_skip", "kp_out", "kr_out"}

\* C34: on_press and on_release are invoked while the listener's key-state
\* lock is held: a thread inside a callback is inside that lock.
C34_CallbackUnderKeyLock ==
    \A t \in Clients : lpc[t] \in CallbackPcs => holder["key"] = t

\* The monitoring threads that are alive: started and not yet returned.
AliveThreads == {t \in Threads : tpc[t] \notin {"none", "done"}}

\* C35: at any time at most one monitoring thread of the listener is running
\* its loop and invoking callbacks, whatever start() and stop() calls were
\* made.
C35_OneMonitoringThread == Cardinality(AliveThreads) <= 1

\* C36: after stop() has been called, the monitoring thread started by the
\* preceding start() eventually leaves its loop and terminates, with or
\* without input events, provided it does not stay inside a callback.
C36_StoppedThreadEnds ==
    \A t \in Threads :
        []<>(tpc[t] \notin {"press", "release"}) =>
            ((spc = "join" /\ thread = t) ~> (tpc[t] = "done"))

\* C37: the frame queue is bounded: however many frames the callback delivers
\* during a session, fewer than those wait in the queue at any time (the
\* capacity is below the MaxFrames frames the callback delivers here).
C37_QueueBounded == Len(audio_queue) < MaxFrames

\* C38: for each watched key taken separately the callbacks fired strictly
\* alternate, beginning with a press after every start(): on_press is called
\* for a key only when the callback fired last for it since start() was no
\* press, on_release only when it was a press.
C38_PerKeyAlternation ==
    [][\A t \in Threads :
         (edge.pc[t] = "due" /\ edge'.pc[t] = "call") =>
             LET ev == edge.ev[t] IN
               IF ev.press THEN edge.fired[ev.code] # "press"
                           ELSE edge.fired[ev.code] = "press"]_vars

\* ------------------------------------------- properties of the whole daemon

\* C39: whenever the state is IDLE and no handler is executing, the recorder
\* is not recording: its flag is false and it has no stream.
C39_IdleMeansNotRecording ==
    (state = "IDLE" /\ ppc = "idle" /\ rpc = "idle") =>
        (~recording /\ stream = "none")

\* C40: once the shutdown cleanup of the main thread has finished, the
\* recorder is not recording, then and at any later time, whatever the
\* monitoring thread was doing during the cleanup.
C40_StoppedStaysStopped == lpc["main"] = "done" => ~recording
====
